---- MODULE Spec2Model ----
(***************************************************************************)
(* Model of package promise2: Promise[T] (a one-slot buffered result       *)
(* channel plus a sync.Once), its producers NewPromise and                 *)
(* NewPromiseWithExecutor, Await, the WorkerPool[T] (task queue, done      *)
(* channel, workers, Submit, Close), and the combinators All, Race,        *)
(* AllSettled, Any, Sequence and Pool.                                     *)
(*                                                                         *)
(* A goroutine is a program counter; a Go channel is a sequence with a     *)
(* capacity and a closed flag; a select is a nondeterministic choice among *)
(* its ready cases; an unrecovered panic in any goroutine ends the process *)
(* (crashed), after which nothing runs.                                    *)
(***************************************************************************)
EXTENDS Integers, Sequences, FiniteSets, TLC

\* ---------------------------------------------------------------- bounds
\* promises made by NewPromise / NewPromiseWithExecutor in the promise specs
MaxPromises == 1
\* tasks submitted to the pool in the pool spec
MaxSubmits == 2
\* invocations of resolve / reject
MaxCalls == 2
\* calls of Await
MaxAwaiters == 3
\* largest value of T
MaxValue == 1
\* largest argument given to NewWorkerPool
MaxWorkers == 1
\* largest number of promises given to a combinator
MaxInputs == 2
\* largest number of work functions given to Pool
MaxTasks == 4

Max(m, n) == IF m > n THEN m ELSE n
\* the future a combinator returns comes after every other future
MaxObservers == Max(MaxInputs, MaxTasks)
Out == Max(Max(MaxPromises, MaxSubmits), MaxObservers) + 1
Futures == 1..Out
Calls == 1..MaxCalls
\* observer i of a combinator is Await call i
Awaiters == 1..Max(MaxAwaiters, MaxObservers)
Observers == 1..MaxObservers

\* ---------------------------------------------------------------- values
\* T is modelled by 0..MaxValue; Zero is T's zero value.
Zero == 0
Values == Zero..MaxValue
NilErr == "nil"
UserErrs == {"errA", "errB"}
ErrTaskPanicked == "ErrTaskPanicked"
ErrPoolClosed == "ErrPoolClosed"
\* ctx.Err() of a token that has fired
CtxErr == "ctxErr"

\* Result[T]{Value, Err}
Result(v, e) == [Value |-> v, Err |-> e]

\* what a work function func() (T, error) can do when it is run
FnOutcomes ==
    [kind : {"return"}, val : Values, err : {NilErr} \cup UserErrs]
        \cup {[kind |-> "panic", val |-> Zero, err |-> NilErr]}
NoFn == [kind |-> "none", val |-> Zero, err |-> NilErr]

\* capacity of resultChan: make(chan Result[T], 1)
ResultChanCap == 1

VARIABLES
    made,        \* made[f]: how future f was constructed ("none" while unused)
    gpc,         \* gpc[f]: position of the goroutine the constructor spawned
    fn,          \* fn[f]: what the work function of f did when it ran
    resultChan,  \* resultChan[f]: Promise.resultChan, a sequence of Results
    onceDone,    \* onceDone[f]: Promise.once has run its function
    onceLock,    \* onceLock[f]: the call holding Promise.once's mutex, or 0
    calls,       \* calls[c]: one invocation of resolve or reject
    awaiters,    \* awaiters[a]: one call of Await
    ctxDone,     \* ctxDone[a]: the token of awaiter a has fired
    crashed,     \* an unrecovered panic has ended the process
    writes,      \* history: writes[f] = number of sends on resultChan[f]
    fnRuns,      \* history: fnRuns[f] = number of times f's work function started
    firstCall,   \* history: firstCall[f] = first call to enter Promise.once
    workers,     \* WorkerPool.workers (0: no pool constructed)
    taskQueue,   \* WorkerPool.taskQueue: the queued tasks (future ids)
    queueClosed, \* close(p.taskQueue) has happened
    doneClosed,  \* close(p.done) has happened
    wg,          \* WorkerPool.wg counter
    wpc,         \* wpc[w]: position of worker w
    wtask,       \* wtask[w]: the task worker w is executing, or 0
    closepc,     \* position of the caller of Close
    atClose,     \* history: tasks queued or executing when Close was called
    recovered,   \* history: the workers that have recovered a panic of a task
    lateSubmit,  \* history: futures submitted after Close had returned
    secondClose, \* position of the caller of a second Close
    comb,        \* the combinator that was called ("none": none)
    nIn,         \* len(promises): the inputs are futures 1..nIn
    opc,         \* opc[i]: position of the goroutine observing input i
    results,     \* the results slice of All, AllSettled and Sequence
    combOnce,    \* errOnce of All, once of Race and Any: has run its function
    cwg,         \* the WaitGroup counter of All and AllSettled
    waiter,      \* position of the goroutine that runs wg.Wait(); resolve(results)
    errors,      \* the errors slice of Any; each entry also names its input
    rejectedCount, \* rejectedCount of Any
    seqIdx,      \* the loop index i of Sequence
    outBy,       \* history: the callback that settled Out ("none": unsettled)
    cbArg,       \* history: what fn of Then, Map or Catch was last called with
    firstSettled,   \* history: the first NewPromise future to settle, or 0
    firstFulfilled  \* history: the first NewPromise future to fulfil, or 0

vars == <<made, gpc, fn, resultChan, onceDone, onceLock, calls, awaiters,
          ctxDone, crashed, writes, fnRuns, firstCall, workers, taskQueue,
          queueClosed, doneClosed, wg, wpc, wtask, closepc, atClose, recovered,
          lateSubmit, secondClose, comb, nIn, opc, results, combOnce, cwg, waiter, errors,
          rejectedCount, seqIdx, outBy, cbArg, firstSettled, firstFulfilled>>

promiseVars == <<made, gpc, fn, resultChan, onceDone, onceLock, calls,
                 awaiters, ctxDone, crashed, writes, fnRuns, firstCall>>
poolVars == <<workers, taskQueue, queueClosed, doneClosed, wg, wpc, wtask,
              closepc, atClose, recovered, lateSubmit, secondClose>>
combVars == <<comb, nIn, opc, results, combOnce, cwg, waiter, errors,
              rejectedCount, seqIdx, outBy, cbArg>>
orderVars == <<firstSettled, firstFulfilled>>

NoArg == [val |-> Zero, err |-> NilErr]
NoCall == [pc |-> "idle", f |-> 0, res |-> Result(Zero, NilErr)]
\* pre: whether the token had already fired when Await was called
NoAwait == [pc |-> "idle", f |-> 0, pre |-> FALSE, val |-> Zero, err |-> NilErr]

\* ------------------------------------------------------- initial states
\* no promise has been made; fns are the work functions the caller is going
\* to pass, where they are known beforehand
InitGiven(fns) ==
    /\ made = [f \in Futures |-> "none"]
    /\ gpc = [f \in Futures |-> "none"]
    /\ fn = fns
    /\ resultChan = [f \in Futures |-> <<>>]
    /\ onceDone = [f \in Futures |-> FALSE]
    /\ onceLock = [f \in Futures |-> 0]
    /\ calls = [c \in Calls |-> NoCall]
    /\ awaiters = [a \in Awaiters |-> NoAwait]
    /\ ctxDone = [a \in Awaiters |-> FALSE]
    /\ crashed = FALSE
    /\ writes = [f \in Futures |-> 0]
    /\ fnRuns = [f \in Futures |-> 0]
    /\ firstCall = [f \in Futures |-> 0]
    /\ firstSettled = 0
    /\ firstFulfilled = 0

InitPromises == InitGiven([f \in Futures |-> NoFn])

NoPool ==
    /\ workers = 0
    /\ taskQueue = <<>>
    /\ queueClosed = FALSE
    /\ doneClosed = FALSE
    /\ wg = 0
    /\ wpc = <<>>
    /\ wtask = <<>>
    /\ closepc = "idle"
    /\ atClose = {}
    /\ recovered = {}
    /\ lateSubmit = {}
    /\ secondClose = "idle"

\* no combinator has been called
NoComb ==
    /\ comb = "none"
    /\ nIn = 0
    /\ opc = [i \in Observers |-> "none"]
    /\ results = <<>>
    /\ combOnce = FALSE
    /\ cwg = 0
    /\ waiter = "none"
    /\ errors = <<>>
    /\ rejectedCount = 0
    /\ seqIdx = 0
    /\ outBy = "none"
    /\ cbArg = NoArg

Init == InitPromises /\ NoPool /\ NoComb

\* no promise has been made yet
NoPromiseYet == \A g \in Futures : made[g] = "none"

\* futures are handed out in index order
Fresh(f) == made[f] = "none" /\ \A g \in Futures : g < f => made[g] # "none"

\* ------------------------------------------------------------ NewPromise
\* NewPromise(fn): allocate the promise and spawn the goroutine
NewPromise(f) ==
    /\ ~crashed
    /\ UNCHANGED <<combVars, orderVars>>
    /\ Fresh(f)
    /\ f <= MaxPromises
    /\ \E o \in FnOutcomes : fn' = [fn EXCEPT ![f] = o]
    /\ made' = [made EXCEPT ![f] = "NewPromise"]
    /\ gpc' = [gpc EXCEPT ![f] = "spawned"]
    /\ UNCHANGED <<resultChan, onceDone, onceLock, calls, awaiters,
                   ctxDone, crashed, writes, fnRuns, firstCall>>
    /\ UNCHANGED poolVars

\* the spawned goroutine is scheduled and calls fn()
FnStart(f) ==
    /\ ~crashed
    /\ UNCHANGED <<combVars, orderVars>>
    /\ made[f] = "NewPromise"
    /\ gpc[f] = "spawned"
    /\ gpc' = [gpc EXCEPT ![f] = "running"]
    /\ fnRuns' = [fnRuns EXCEPT ![f] = @ + 1]
    /\ UNCHANGED <<made, fn, resultChan, onceDone, onceLock, calls, awaiters,
                   ctxDone, crashed, writes, firstCall>>
    /\ UNCHANGED poolVars

\* the value dropped from the Result
FnResultNoValue(o) == Result(Zero, o.err)

\* the Result the goroutine of NewPromise sends for fn's return (val, err)
FnResult(o) == Result(o.val, o.err)

\* val, err := fn(); p.resultChan <- Result[T]{Value: val, Err: err}
FnReturn(f) ==
    /\ ~crashed
    /\ UNCHANGED combVars
    /\ made[f] = "NewPromise"
    /\ gpc[f] = "running"
    /\ fn[f].kind = "return"
    /\ firstSettled' = (IF firstSettled = 0 THEN f ELSE firstSettled)
    /\ firstFulfilled' =
        (IF firstFulfilled = 0 /\ fn[f].err = NilErr THEN f ELSE firstFulfilled)
    /\ Len(resultChan[f]) < ResultChanCap
    /\ resultChan' = [resultChan EXCEPT ![f] = Append(@, FnResult(fn[f]))]
    /\ writes' = [writes EXCEPT ![f] = @ + 1]
    /\ gpc' = [gpc EXCEPT ![f] = "finished"]
    /\ UNCHANGED <<made, fn, onceDone, onceLock, calls, awaiters, ctxDone,
                   crashed, fnRuns, firstCall>>
    /\ UNCHANGED poolVars

\* fn() panics: the goroutine of NewPromise has no recover
FnPanic(f) ==
    /\ ~crashed
    /\ UNCHANGED <<combVars, orderVars>>
    /\ made[f] = "NewPromise"
    /\ gpc[f] = "running"
    /\ fn[f].kind = "panic"
    /\ gpc' = [gpc EXCEPT ![f] = "panicked"]
    /\ crashed' = TRUE
    /\ UNCHANGED <<made, fn, resultChan, onceDone, onceLock, calls, awaiters,
                   ctxDone, writes, fnRuns, firstCall>>
    /\ UNCHANGED poolVars

\* ------------------------------------------------ NewPromiseWithExecutor
\* NewPromiseWithExecutor(executor): allocate the promise, spawn the goroutine
NewPromiseWithExecutor(f) ==
    /\ ~crashed
    /\ UNCHANGED <<combVars, orderVars>>
    /\ Fresh(f)
    /\ f <= MaxPromises
    /\ made' = [made EXCEPT ![f] = "Executor"]
    /\ gpc' = [gpc EXCEPT ![f] = "spawned"]
    /\ UNCHANGED <<fn, resultChan, onceDone, onceLock, calls, awaiters,
                   ctxDone, crashed, writes, fnRuns, firstCall>>
    /\ UNCHANGED poolVars

\* the goroutine builds resolve and reject and calls executor(resolve, reject)
ExecutorStart(f) ==
    /\ ~crashed
    /\ UNCHANGED <<combVars, orderVars>>
    /\ made[f] = "Executor"
    /\ gpc[f] = "spawned"
    /\ gpc' = [gpc EXCEPT ![f] = "running"]
    /\ UNCHANGED <<made, fn, resultChan, onceDone, onceLock, calls, awaiters,
                   ctxDone, crashed, writes, fnRuns, firstCall>>
    /\ UNCHANGED poolVars

\* executor returns; the callbacks it handed to other goroutines stay usable
ExecutorReturn(f) ==
    /\ ~crashed
    /\ UNCHANGED <<combVars, orderVars>>
    /\ made[f] = "Executor"
    /\ gpc[f] = "running"
    /\ gpc' = [gpc EXCEPT ![f] = "finished"]
    /\ UNCHANGED <<made, fn, resultChan, onceDone, onceLock, calls, awaiters,
                   ctxDone, crashed, writes, fnRuns, firstCall>>
    /\ UNCHANGED poolVars

\* executor panics: the goroutine of NewPromiseWithExecutor has no recover
ExecutorPanic(f) ==
    /\ ~crashed
    /\ UNCHANGED <<combVars, orderVars>>
    /\ made[f] = "Executor"
    /\ gpc[f] = "running"
    /\ gpc' = [gpc EXCEPT ![f] = "panicked"]
    /\ crashed' = TRUE
    /\ UNCHANGED <<made, fn, resultChan, onceDone, onceLock, calls, awaiters,
                   ctxDone, writes, fnRuns, firstCall>>
    /\ UNCHANGED poolVars

\* the Result resolve(val) sends: Result[T]{Value: val, Err: nil}
ResolveResult(v) == Result(v, NilErr)
\* the Result reject(err) sends: Result[T]{Err: err}
RejectResult(e) == Result(Zero, e)

\* the arguments an invocation of resolve or reject can carry
CallResults ==
    {ResolveResult(v) : v \in Values} \cup {RejectResult(e) : e \in UserErrs}

\* calls are numbered in the order they begin
NextCall(c) == calls[c].pc = "idle" /\ \A d \in Calls : d < c => calls[d].pc # "idle"

\* resolve(val) or reject(err) is invoked, by the executor's goroutine or by
\* one it started: p.once.Do(...) begins
CallBegin(c, f) ==
    /\ ~crashed
    /\ UNCHANGED <<combVars, orderVars>>
    /\ NextCall(c)
    /\ made[f] = "Executor"
    /\ gpc[f] \in {"running", "finished"}
    /\ \E r \in CallResults :
        calls' = [calls EXCEPT ![c] = [pc |-> "check", f |-> f, res |-> r]]
    /\ UNCHANGED <<made, gpc, fn, resultChan, onceDone, onceLock, awaiters,
                   ctxDone, crashed, writes, fnRuns, firstCall>>
    /\ UNCHANGED poolVars

\* sync.Once.Do, fast path: done already set, return at once
OnceCheck(c) ==
    /\ ~crashed
    /\ UNCHANGED <<combVars, orderVars>>
    /\ calls[c].pc = "check"
    /\ calls' = [calls EXCEPT ![c].pc =
                    IF onceDone[calls[c].f] THEN "returned" ELSE "lock"]
    /\ UNCHANGED <<made, gpc, fn, resultChan, onceDone, onceLock, awaiters,
                   ctxDone, crashed, writes, fnRuns, firstCall>>
    /\ UNCHANGED poolVars

\* sync.Once.Do, slow path: take the mutex (waits while another call holds it)
OnceLock(c) ==
    /\ ~crashed
    /\ UNCHANGED <<combVars, orderVars>>
    /\ calls[c].pc = "lock"
    /\ onceLock[calls[c].f] = 0
    /\ onceLock' = [onceLock EXCEPT ![calls[c].f] = c]
    /\ firstCall' = [firstCall EXCEPT ![calls[c].f] = IF @ = 0 THEN c ELSE @]
    /\ calls' = [calls EXCEPT ![c].pc = "locked"]
    /\ UNCHANGED <<made, gpc, fn, resultChan, onceDone, awaiters, ctxDone,
                   crashed, writes, fnRuns>>
    /\ UNCHANGED poolVars

\* the send not guarded by the once
OnceRunsAlways(f) == TRUE

\* p.once.Do(func() {...}): whether the call holding the mutex runs the send
OnceRuns(f) == ~onceDone[f]

\* under the mutex: if done is not set, p.resultChan <- Result and set done;
\* then release the mutex and return
OnceSlow(c) ==
    /\ ~crashed
    /\ UNCHANGED <<combVars, orderVars>>
    /\ calls[c].pc = "locked"
    /\ LET f == calls[c].f IN
        /\ IF OnceRuns(f)
           THEN /\ Len(resultChan[f]) < ResultChanCap
                /\ resultChan' = [resultChan EXCEPT ![f] = Append(@, calls[c].res)]
                /\ writes' = [writes EXCEPT ![f] = @ + 1]
                /\ onceDone' = [onceDone EXCEPT ![f] = TRUE]
           ELSE UNCHANGED <<resultChan, writes, onceDone>>
        /\ onceLock' = [onceLock EXCEPT ![f] = 0]
    /\ calls' = [calls EXCEPT ![c].pc = "returned"]
    /\ UNCHANGED <<made, gpc, fn, awaiters, ctxDone, crashed, fnRuns, firstCall>>
    /\ UNCHANGED poolVars

\* ----------------------------------------------------------------- Await
\* awaiters are numbered in the order they call Await
NextAwaiter(a) ==
    awaiters[a].pc = "idle" /\ \A b \in Awaiters : b < a => awaiters[b].pc # "idle"

\* p.Await(ctx) is called and reaches its select
AwaitCall(a, f) ==
    /\ ~crashed
    /\ UNCHANGED <<combVars, orderVars>>
    /\ NextAwaiter(a)
    /\ a <= MaxAwaiters
    /\ made[f] # "none"
    /\ awaiters' = [awaiters EXCEPT ![a] =
            [@ EXCEPT !.pc = "waiting", !.f = f, !.pre = ctxDone[a]]]
    /\ UNCHANGED <<made, gpc, fn, resultChan, onceDone, onceLock, calls,
                   ctxDone, crashed, writes, fnRuns, firstCall>>
    /\ UNCHANGED poolVars

\* the token of awaiter a fires (cancel or deadline), before or during Await
CtxCancel(a) ==
    /\ ~crashed
    /\ UNCHANGED <<combVars, orderVars>>
    /\ a <= MaxAwaiters
    /\ ~ctxDone[a]
    /\ awaiters[a].pc # "returned"
    /\ ctxDone' = [ctxDone EXCEPT ![a] = TRUE]
    /\ UNCHANGED <<made, gpc, fn, resultChan, onceDone, onceLock, calls,
                   awaiters, crashed, writes, fnRuns, firstCall>>
    /\ UNCHANGED poolVars

\* case result := <-p.resultChan: return result.Value, result.Err
AwaitRecv(a) ==
    /\ ~crashed
    /\ UNCHANGED <<combVars, orderVars>>
    /\ awaiters[a].pc = "waiting"
    /\ LET f == awaiters[a].f IN
        /\ Len(resultChan[f]) > 0
        /\ awaiters' = [awaiters EXCEPT ![a] =
                [@ EXCEPT !.pc = "returned",
                          !.val = Head(resultChan[f]).Value,
                          !.err = Head(resultChan[f]).Err]]
        /\ resultChan' = [resultChan EXCEPT ![f] = Tail(@)]
    /\ UNCHANGED <<made, gpc, fn, onceDone, onceLock, calls, ctxDone, crashed,
                   writes, fnRuns, firstCall>>
    /\ UNCHANGED poolVars

\* the cancellation case also taking what the channel holds
AwaitCtxDrains(a) ==
    /\ ~crashed
    /\ UNCHANGED <<combVars, orderVars>>
    /\ awaiters[a].pc = "waiting"
    /\ ctxDone[a]
    /\ awaiters' = [awaiters EXCEPT ![a] =
            [@ EXCEPT !.pc = "returned", !.val = Zero, !.err = CtxErr]]
    /\ resultChan' = [resultChan EXCEPT ![awaiters[a].f] =
            IF @ = <<>> THEN @ ELSE Tail(@)]
    /\ UNCHANGED <<made, gpc, fn, onceDone, onceLock, calls,
                   ctxDone, crashed, writes, fnRuns, firstCall>>
    /\ UNCHANGED poolVars

\* case <-ctx.Done(): return zero, ctx.Err()
AwaitCtx(a) ==
    /\ ~crashed
    /\ UNCHANGED <<combVars, orderVars>>
    /\ awaiters[a].pc = "waiting"
    /\ ctxDone[a]
    /\ awaiters' = [awaiters EXCEPT ![a] =
            [@ EXCEPT !.pc = "returned", !.val = Zero, !.err = CtxErr]]
    /\ UNCHANGED <<made, gpc, fn, resultChan, onceDone, onceLock, calls,
                   ctxDone, crashed, writes, fnRuns, firstCall>>
    /\ UNCHANGED poolVars

\* ----------------------------------------------------------- combinators
\* A combinator is NewPromiseWithExecutor(executor): its promise is future
\* Out, its executor runs in the goroutine NewPromiseWithExecutor spawns.
\* Its inputs are promises 1..nIn made by NewPromise; the goroutine observing
\* input i calls p.Await(ctx), which is Await call i.

\* the promises given to the combinator
Inputs == 1..nIn

\* what the work function of an input does: return (v, nil) or (zero, err)
InputOutcomes ==
    {o \in FnOutcomes : o.kind = "return" /\ (o.err # NilErr => o.val = Zero)}

\* the state in which kind(ctx, promises...) returns its promise: the inputs
\* are distinct promises whose goroutines have been spawned, and so has the
\* goroutine of the combinator's executor; fired tells whether ctx is done
\* already, outs what the work functions of the inputs may do
CombGiven(kind, fired, outs) ==
    /\ \E n \in 0..MaxInputs : \E fns \in [1..n -> outs] :
        /\ nIn = n
        /\ made = [f \in Futures |->
                IF f <= n THEN "NewPromise" ELSE IF f = Out THEN "Executor" ELSE "none"]
        /\ gpc = [f \in Futures |-> IF f <= n \/ f = Out THEN "spawned" ELSE "none"]
        /\ fn = [f \in Futures |-> IF f <= n THEN fns[f] ELSE NoFn]
    /\ resultChan = [f \in Futures |-> <<>>]
    /\ onceDone = [f \in Futures |-> FALSE]
    /\ onceLock = [f \in Futures |-> 0]
    /\ calls = [c \in Calls |-> NoCall]
    /\ awaiters = [a \in Awaiters |-> NoAwait]
    /\ ctxDone = [a \in Awaiters |-> fired]
    /\ crashed = FALSE
    /\ writes = [f \in Futures |-> 0]
    /\ fnRuns = [f \in Futures |-> 0]
    /\ firstCall = [f \in Futures |-> 0]
    /\ firstSettled = 0
    /\ firstFulfilled = 0
    /\ NoPool
    /\ comb = kind
    /\ opc = [i \in Observers |-> "none"]
    /\ results = <<>>
    /\ combOnce = FALSE
    /\ cwg = 0
    /\ waiter = "none"
    /\ errors = <<>>
    /\ rejectedCount = 0
    /\ seqIdx = 0
    /\ outBy = "none"
    /\ cbArg = NoArg

\* kind(ctx, promises...) called with a token that has not fired
CombCalled(kind) == CombGiven(kind, FALSE, InputOutcomes)

\* what no step of a combinator changes
CombFrame ==
    /\ UNCHANGED <<made, fn, onceLock, calls, ctxDone, crashed, fnRuns,
                   firstCall, comb, nIn, cbArg>>
    /\ UNCHANGED poolVars
    /\ UNCHANGED orderVars

\* resolve or reject of the combinator's promise, p.once.Do(send) as one step
Settle(r, by) ==
    IF OnceRuns(Out)
    THEN /\ Len(resultChan[Out]) < ResultChanCap
         /\ resultChan' = [resultChan EXCEPT ![Out] = Append(@, r)]
         /\ writes' = [writes EXCEPT ![Out] = @ + 1]
         /\ onceDone' = [onceDone EXCEPT ![Out] = TRUE]
         /\ outBy' = by
    ELSE UNCHANGED <<resultChan, writes, onceDone, outBy>>
Resolve(v) == Settle(ResolveResult(v), "resolve")
Reject(e) == Settle(RejectResult(e), "reject")
NoSettle == UNCHANGED <<resultChan, writes, onceDone, outBy>>

\* errOnce.Do / once.Do of the combinator's own sync.Once, running A
CombOnceDo(A) ==
    IF ~combOnce
    THEN combOnce' = TRUE /\ A
    ELSE combOnce' = combOnce /\ NoSettle

\* for ... range promises { go func(...) { ... p.Await(ctx) ... } }: one
\* goroutine per input, each at the select of its Await
SpawnObservers ==
    /\ awaiters' = [a \in Awaiters |->
            IF a \in Inputs
            THEN [NoAwait EXCEPT !.pc = "waiting", !.f = a, !.pre = ctxDone[a]]
            ELSE awaiters[a]]
    /\ opc' = [i \in Observers |-> IF i \in Inputs THEN "await" ELSE "none"]

\* --------------------------------------------------------------- the token
\* the ctx given to the combinator is the ctx of every inner p.Await(ctx)
TokenFired == \A a \in Awaiters : ctxDone[a]

\* a token that reaches the Await of the first input only
TokenFireFirst ==
    /\ ~crashed
    /\ ~ctxDone[1]
    /\ ctxDone' = [ctxDone EXCEPT ![1] = TRUE]
    /\ UNCHANGED <<made, gpc, fn, resultChan, onceDone, onceLock, calls,
                   awaiters, crashed, writes, fnRuns, firstCall>>
    /\ UNCHANGED <<combVars, orderVars>>
    /\ UNCHANGED poolVars

\* ctx is cancelled or its deadline passes: ctx.Done() is closed for every
\* goroutine that selects on it
TokenFire ==
    /\ ~crashed
    /\ ~TokenFired
    /\ ctxDone' = [a \in Awaiters |-> TRUE]
    /\ UNCHANGED <<made, gpc, fn, resultChan, onceDone, onceLock, calls,
                   awaiters, crashed, writes, fnRuns, firstCall>>
    /\ UNCHANGED <<combVars, orderVars>>
    /\ UNCHANGED poolVars

\* an input taken as empty never
EmptyInputNever(n) == FALSE

\* if n == 0 / if len(promises) == 0
EmptyInput(n) == n = 0

\* ------------------------------------------------------------------- All
\* the executor of All: resolve([]T{}) for no input, else make the results
\* slice, wg.Add(n), start the observers and the goroutine that waits
AllStart ==
    /\ ~crashed
    /\ comb = "All"
    /\ gpc[Out] = "spawned"
    /\ gpc' = [gpc EXCEPT ![Out] = "finished"]
    /\ IF EmptyInput(nIn)
       THEN /\ Resolve(<<>>)
            /\ UNCHANGED <<awaiters, opc, results, cwg, waiter>>
       ELSE /\ SpawnObservers
            /\ results' = [i \in Inputs |-> Zero]
            /\ cwg' = nIn
            /\ waiter' = "waiting"
            /\ NoSettle
    /\ UNCHANGED <<combOnce, errors, rejectedCount, seqIdx>>
    /\ CombFrame

\* the value stored in the first slot still empty
StoreFirstFree(res, idx, val) ==
    LET free == {j \in DOMAIN res : \A k \in DOMAIN res : k < j => res[k] # Zero}
        at == CHOOSE j \in free : \A k \in free : j >= k
    IN [res EXCEPT ![at] = val]

\* results[idx] = val
StoreAt(res, idx, val) == [res EXCEPT ![idx] = val]

\* observer idx of All after its Await returned (val, err): on an error
\* errOnce.Do(reject(err)) and return; else results[idx] = val and wg.Done()
AllObserve(i) ==
    /\ ~crashed
    /\ comb = "All"
    /\ i \in Inputs
    /\ opc[i] = "await"
    /\ awaiters[i].pc = "returned"
    /\ IF awaiters[i].err # NilErr
       THEN /\ CombOnceDo(Reject(awaiters[i].err))
            /\ opc' = [opc EXCEPT ![i] = "exit"]
            /\ UNCHANGED <<results, cwg>>
       ELSE /\ results' = StoreAt(results, i, awaiters[i].val)
            /\ cwg' = cwg - 1
            /\ opc' = [opc EXCEPT ![i] = "done"]
            /\ combOnce' = combOnce
            /\ NoSettle
    /\ UNCHANGED <<gpc, awaiters, waiter, errors, rejectedCount, seqIdx>>
    /\ CombFrame

\* defer wg.Done() of an observer of All that returns after the reject
AllExit(i) ==
    /\ ~crashed
    /\ comb = "All"
    /\ i \in Inputs
    /\ opc[i] = "exit"
    /\ cwg' = cwg - 1
    /\ opc' = [opc EXCEPT ![i] = "done"]
    /\ NoSettle
    /\ UNCHANGED <<gpc, awaiters, results, combOnce, waiter, errors,
                   rejectedCount, seqIdx>>
    /\ CombFrame

\* resolve(results) without the wg.Wait() before it
AllWaitNoWait ==
    /\ ~crashed
    /\ comb = "All"
    /\ waiter = "waiting"
    /\ Resolve(results)
    /\ waiter' = "done"
    /\ UNCHANGED <<gpc, awaiters, opc, results, combOnce, cwg, errors,
                   rejectedCount, seqIdx>>
    /\ CombFrame

\* go func() { wg.Wait(); resolve(results) }()
AllWait ==
    /\ ~crashed
    /\ comb = "All"
    /\ waiter = "waiting"
    /\ cwg = 0
    /\ Resolve(results)
    /\ waiter' = "done"
    /\ UNCHANGED <<gpc, awaiters, opc, results, combOnce, cwg, errors,
                   rejectedCount, seqIdx>>
    /\ CombFrame

\* ------------------------------------------------------------------ Race
\* the executor of Race: resolve(zero) for no input, else start the observers
RaceStart ==
    /\ ~crashed
    /\ comb = "Race"
    /\ gpc[Out] = "spawned"
    /\ gpc' = [gpc EXCEPT ![Out] = "finished"]
    /\ IF EmptyInput(nIn)
       THEN /\ Resolve(Zero)
            /\ UNCHANGED <<awaiters, opc>>
       ELSE /\ SpawnObservers
            /\ NoSettle
    /\ UNCHANGED <<results, combOnce, cwg, waiter, errors, rejectedCount, seqIdx>>
    /\ CombFrame

\* an observer of Race after its Await returned (val, err):
\* once.Do(func() { if err != nil { reject(err) } else { resolve(val) } })
RaceObserve(i) ==
    /\ ~crashed
    /\ comb = "Race"
    /\ i \in Inputs
    /\ opc[i] = "await"
    /\ awaiters[i].pc = "returned"
    /\ IF awaiters[i].err # NilErr
       THEN CombOnceDo(Reject(awaiters[i].err))
       ELSE CombOnceDo(Resolve(awaiters[i].val))
    /\ opc' = [opc EXCEPT ![i] = "done"]
    /\ UNCHANGED <<gpc, awaiters, results, cwg, waiter, errors, rejectedCount,
                   seqIdx>>
    /\ CombFrame

\* ------------------------------------------------------------ AllSettled
StatusFulfilled == "fulfilled"
StatusRejected == "rejected"
\* PromiseStatus[T]{Status, Value, Err}; its zero value
PromiseStatus(st, v, e) == [Status |-> st, Value |-> v, Err |-> e]
ZeroStatus == PromiseStatus("", Zero, NilErr)

\* the executor of AllSettled: resolve([]PromiseStatus[T]{}) for no input,
\* else make the results slice, wg.Add(n), start the observers and the
\* goroutine that waits
AllSettledStart ==
    /\ ~crashed
    /\ comb = "AllSettled"
    /\ gpc[Out] = "spawned"
    /\ gpc' = [gpc EXCEPT ![Out] = "finished"]
    /\ IF EmptyInput(nIn)
       THEN /\ Resolve(<<>>)
            /\ UNCHANGED <<awaiters, opc, results, cwg, waiter>>
       ELSE /\ SpawnObservers
            /\ results' = [i \in Inputs |-> ZeroStatus]
            /\ cwg' = nIn
            /\ waiter' = "waiting"
            /\ NoSettle
    /\ UNCHANGED <<combOnce, errors, rejectedCount, seqIdx>>
    /\ CombFrame

\* every entry recorded as fulfilled
StatusAlwaysFulfilled(val, err) == PromiseStatus(StatusFulfilled, val, NilErr)

\* the entry an observer of AllSettled records for (val, err)
StatusOf(val, err) ==
    IF err # NilErr
    THEN PromiseStatus(StatusRejected, Zero, err)
    ELSE PromiseStatus(StatusFulfilled, val, NilErr)

\* an observer of AllSettled after its Await returned (val, err):
\* results[idx] = PromiseStatus{...} under mu, then wg.Done()
AllSettledObserve(i) ==
    /\ ~crashed
    /\ comb = "AllSettled"
    /\ i \in Inputs
    /\ opc[i] = "await"
    /\ awaiters[i].pc = "returned"
    /\ results' = StoreAt(results, i, StatusOf(awaiters[i].val, awaiters[i].err))
    /\ cwg' = cwg - 1
    /\ opc' = [opc EXCEPT ![i] = "done"]
    /\ NoSettle
    /\ UNCHANGED <<gpc, awaiters, combOnce, waiter, errors, rejectedCount, seqIdx>>
    /\ CombFrame

\* go func() { wg.Wait(); resolve(results) }()
AllSettledWait ==
    /\ ~crashed
    /\ comb = "AllSettled"
    /\ waiter = "waiting"
    /\ cwg = 0
    /\ Resolve(results)
    /\ waiter' = "done"
    /\ UNCHANGED <<gpc, awaiters, opc, results, combOnce, cwg, errors,
                   rejectedCount, seqIdx>>
    /\ CombFrame

\* ------------------------------------------------------------------- Any
ErrAllPromisesRejected == "ErrAllPromisesRejected"
\* NewAggregateError(errs): &AggregateError{errors: errs}
NewAggregateError(errs) == [errors |-> errs]
\* (ae *AggregateError).Count()
Count(ae) == Len(ae.errors)
\* the []error held by the errors slice
ErrorsOf(es) == [k \in DOMAIN es |-> es[k].err]

\* the executor of Any: reject(ErrAllPromisesRejected) for no input, else
\* start the observers
AnyStart ==
    /\ ~crashed
    /\ comb = "Any"
    /\ gpc[Out] = "spawned"
    /\ gpc' = [gpc EXCEPT ![Out] = "finished"]
    /\ IF EmptyInput(nIn)
       THEN /\ Reject(ErrAllPromisesRejected)
            /\ UNCHANGED <<awaiters, opc>>
       ELSE /\ SpawnObservers
            /\ NoSettle
    /\ UNCHANGED <<results, combOnce, cwg, waiter, errors, rejectedCount, seqIdx>>
    /\ CombFrame

\* all taken as rejected at the first rejection
AllRejectedEarly(count, n) == count >= 1

\* allRejected := rejectedCount == n
AllRejected(count, n) == count = n

\* an observer of Any after its Await returned (val, err): on success
\* once.Do(resolve(val)) and return; else, under mu, errors = append(errors,
\* err), rejectedCount++ and allRejected := rejectedCount == n
AnyObserve(i) ==
    /\ ~crashed
    /\ comb = "Any"
    /\ i \in Inputs
    /\ opc[i] = "await"
    /\ awaiters[i].pc = "returned"
    /\ IF awaiters[i].err = NilErr
       THEN /\ CombOnceDo(Resolve(awaiters[i].val))
            /\ opc' = [opc EXCEPT ![i] = "done"]
            /\ UNCHANGED <<errors, rejectedCount>>
       ELSE /\ errors' = Append(errors, [src |-> i, err |-> awaiters[i].err])
            /\ rejectedCount' = rejectedCount + 1
            /\ opc' = [opc EXCEPT ![i] =
                    IF AllRejected(rejectedCount + 1, nIn) THEN "rejectAll" ELSE "done"]
            /\ combOnce' = combOnce
            /\ NoSettle
    /\ UNCHANGED <<gpc, awaiters, results, cwg, waiter, seqIdx>>
    /\ CombFrame

\* if allRejected { once.Do(func() { reject(NewAggregateError(errors)) }) }
AnyRejectAll(i) ==
    /\ ~crashed
    /\ comb = "Any"
    /\ i \in Inputs
    /\ opc[i] = "rejectAll"
    /\ CombOnceDo(Reject(NewAggregateError(ErrorsOf(errors))))
    /\ opc' = [opc EXCEPT ![i] = "done"]
    /\ UNCHANGED <<gpc, awaiters, results, cwg, waiter, errors, rejectedCount,
                   seqIdx>>
    /\ CombFrame

\* -------------------------------------------------------------- Sequence
\* promise.Await(ctx) called by the executor of Sequence for input i
SeqAwait(i) ==
    [awaiters EXCEPT ![i] =
        [NoAwait EXCEPT !.pc = "waiting", !.f = i, !.pre = ctxDone[i]]]

\* the executor of Sequence starts: results := make([]T, n); with no input
\* the loop is empty and resolve(results) follows, else it awaits input 1
SeqStart ==
    /\ ~crashed
    /\ comb = "Sequence"
    /\ gpc[Out] = "spawned"
    /\ results' = [i \in Inputs |-> Zero]
    /\ IF nIn = 0
       THEN /\ Resolve(<<>>)
            /\ gpc' = [gpc EXCEPT ![Out] = "finished"]
            /\ UNCHANGED <<awaiters, seqIdx>>
       ELSE /\ gpc' = [gpc EXCEPT ![Out] = "running"]
            /\ seqIdx' = 1
            /\ awaiters' = SeqAwait(1)
            /\ NoSettle
    /\ UNCHANGED <<opc, combOnce, cwg, waiter, errors, rejectedCount>>
    /\ CombFrame

\* the loop going on to the next input after reject(err)
SeqStepNoReturn ==
    /\ ~crashed
    /\ comb = "Sequence"
    /\ gpc[Out] = "running"
    /\ awaiters[seqIdx].pc = "returned"
    /\ LET val == awaiters[seqIdx].val
           err == awaiters[seqIdx].err
           res == IF err # NilErr THEN results ELSE StoreAt(results, seqIdx, val)
       IN /\ results' = res
          /\ IF seqIdx = nIn
             THEN /\ IF err # NilErr THEN Reject(err) ELSE Resolve(res)
                  /\ gpc' = [gpc EXCEPT ![Out] = "finished"]
                  /\ UNCHANGED <<awaiters, seqIdx>>
             ELSE /\ IF err # NilErr THEN Reject(err) ELSE NoSettle
                  /\ seqIdx' = seqIdx + 1
                  /\ awaiters' = SeqAwait(seqIdx + 1)
                  /\ gpc' = gpc
    /\ UNCHANGED <<opc, combOnce, cwg, waiter, errors, rejectedCount>>
    /\ CombFrame

\* the loop body after promise.Await(ctx) returned (val, err): on an error
\* reject(err) and return; else results[i] = val and either await the next
\* input or, after the last one, resolve(results)
SeqStep ==
    /\ ~crashed
    /\ comb = "Sequence"
    /\ gpc[Out] = "running"
    /\ awaiters[seqIdx].pc = "returned"
    /\ LET val == awaiters[seqIdx].val
           err == awaiters[seqIdx].err
       IN IF err # NilErr
          THEN /\ Reject(err)
               /\ gpc' = [gpc EXCEPT ![Out] = "finished"]
               /\ UNCHANGED <<results, awaiters, seqIdx>>
          ELSE /\ results' = StoreAt(results, seqIdx, val)
               /\ IF seqIdx = nIn
                  THEN /\ Resolve(StoreAt(results, seqIdx, val))
                       /\ gpc' = [gpc EXCEPT ![Out] = "finished"]
                       /\ UNCHANGED <<awaiters, seqIdx>>
                  ELSE /\ seqIdx' = seqIdx + 1
                       /\ awaiters' = SeqAwait(seqIdx + 1)
                       /\ gpc' = gpc
                       /\ NoSettle
    /\ UNCHANGED <<opc, combOnce, cwg, waiter, errors, rejectedCount>>
    /\ CombFrame

\* ------------------------------------------- Then, Map, Catch, Finally
\* p.Then(fn), p.Map(fn), p.Catch(fn) and p.Finally(fn) return
\* NewPromiseWithExecutor(executor): the new promise is future Out, the
\* source p is future Src, made by NewPromise.  The executor starts one
\* goroutine that calls p.Await(context.Background()), Await call Src.
\* fn[Out] is what the callback fn does when it is called, fnRuns[Out] the
\* number of times it has been called.
Src == 1
ChainKinds == {"Then", "Map", "Catch", "Finally"}

\* what the work function of the source does: it returns some (val, err)
SourceOutcomes == {o \in FnOutcomes : o.kind = "return"}
\* fn func(T) error of Then
ThenOutcomes == {o \in SourceOutcomes : o.val = Zero}
\* fn func(T) (T, error) of Map, fn func(error) (T, error) of Catch
MapOutcomes == SourceOutcomes
CatchOutcomes == SourceOutcomes
\* fn func() of Finally
FinallyOutcomes == {o \in SourceOutcomes : o.val = Zero /\ o.err = NilErr}

\* the state in which p.Then(fn) (Map, Catch, Finally) returns the new promise
ChainCalled ==
    /\ \E o \in SourceOutcomes :
        fn = [f \in Futures |-> IF f = Src THEN o ELSE NoFn]
    /\ nIn = 1
    /\ made = [f \in Futures |->
            IF f = Src THEN "NewPromise" ELSE IF f = Out THEN "Executor" ELSE "none"]
    /\ gpc = [f \in Futures |-> IF f = Src \/ f = Out THEN "spawned" ELSE "none"]
    /\ resultChan = [f \in Futures |-> <<>>]
    /\ onceDone = [f \in Futures |-> FALSE]
    /\ onceLock = [f \in Futures |-> 0]
    /\ calls = [c \in Calls |-> NoCall]
    /\ awaiters = [a \in Awaiters |-> NoAwait]
    /\ ctxDone = [a \in Awaiters |-> FALSE]
    /\ crashed = FALSE
    /\ writes = [f \in Futures |-> 0]
    /\ fnRuns = [f \in Futures |-> 0]
    /\ firstCall = [f \in Futures |-> 0]
    /\ firstSettled = 0
    /\ firstFulfilled = 0
    /\ NoPool
    /\ comb \in ChainKinds
    /\ opc = [i \in Observers |-> "none"]
    /\ results = <<>>
    /\ combOnce = FALSE
    /\ cwg = 0
    /\ waiter = "none"
    /\ errors = <<>>
    /\ rejectedCount = 0
    /\ seqIdx = 0
    /\ outBy = "none"
    /\ cbArg = NoArg

\* what no step of Then, Map, Catch or Finally changes
ChainFrame ==
    /\ UNCHANGED <<made, onceLock, calls, ctxDone, crashed, firstCall, comb,
                   nIn, results, combOnce, cwg, waiter, errors, rejectedCount,
                   seqIdx>>
    /\ UNCHANGED poolVars
    /\ UNCHANGED orderVars

\* the executor: go func() { val, err := p.Await(context.Background()) ... }()
ChainStart ==
    /\ ~crashed
    /\ comb \in ChainKinds
    /\ gpc[Out] = "spawned"
    /\ gpc' = [gpc EXCEPT ![Out] = "finished"]
    /\ awaiters' = [awaiters EXCEPT ![Src] =
            [NoAwait EXCEPT !.pc = "waiting", !.f = Src]]
    /\ opc' = [opc EXCEPT ![Src] = "await"]
    /\ NoSettle
    /\ UNCHANGED <<fn, fnRuns, cbArg>>
    /\ ChainFrame

\* fn called whatever the source did
ThenCallsAlways(err) == TRUE
\* Then: if err != nil { reject(err); return }, else fn(val) is called
ThenCalls(err) == err = NilErr

\* Then after the Await returned (val, err): reject(err), or call fn(val)
ThenObserve ==
    /\ ~crashed
    /\ comb = "Then"
    /\ opc[Src] = "await"
    /\ awaiters[Src].pc = "returned"
    /\ LET val == awaiters[Src].val
           err == awaiters[Src].err
       IN IF ThenCalls(err)
          THEN /\ fnRuns' = [fnRuns EXCEPT ![Out] = @ + 1]
               /\ cbArg' = [val |-> val, err |-> NilErr]
               /\ \E o \in ThenOutcomes : fn' = [fn EXCEPT ![Out] = o]
               /\ opc' = [opc EXCEPT ![Src] = "calling"]
               /\ NoSettle
          ELSE /\ Reject(err)
               /\ opc' = [opc EXCEPT ![Src] = "done"]
               /\ UNCHANGED <<fn, fnRuns, cbArg>>
    /\ UNCHANGED <<gpc, awaiters>>
    /\ ChainFrame

\* Then after fn returned: reject(fn's error), or resolve(val)
ThenReturn ==
    /\ ~crashed
    /\ comb = "Then"
    /\ opc[Src] = "calling"
    /\ IF fn[Out].err # NilErr
       THEN Reject(fn[Out].err)
       ELSE Resolve(awaiters[Src].val)
    /\ opc' = [opc EXCEPT ![Src] = "done"]
    /\ UNCHANGED <<gpc, awaiters, fn, fnRuns, cbArg>>
    /\ ChainFrame

\* the value Map resolves with taken from the source
MapValueOfSource(val, o) == val
\* newVal, err := fn(val); resolve(newVal)
MapValue(val, o) == o.val

\* Map after the Await returned (val, err): reject(err), or call fn(val)
MapObserve ==
    /\ ~crashed
    /\ comb = "Map"
    /\ opc[Src] = "await"
    /\ awaiters[Src].pc = "returned"
    /\ LET val == awaiters[Src].val
           err == awaiters[Src].err
       IN IF err = NilErr
          THEN /\ fnRuns' = [fnRuns EXCEPT ![Out] = @ + 1]
               /\ cbArg' = [val |-> val, err |-> NilErr]
               /\ \E o \in MapOutcomes : fn' = [fn EXCEPT ![Out] = o]
               /\ opc' = [opc EXCEPT ![Src] = "calling"]
               /\ NoSettle
          ELSE /\ Reject(err)
               /\ opc' = [opc EXCEPT ![Src] = "done"]
               /\ UNCHANGED <<fn, fnRuns, cbArg>>
    /\ UNCHANGED <<gpc, awaiters>>
    /\ ChainFrame

\* Map after fn returned (newVal, err): reject(err), or resolve(newVal)
MapReturn ==
    /\ ~crashed
    /\ comb = "Map"
    /\ opc[Src] = "calling"
    /\ IF fn[Out].err # NilErr
       THEN Reject(fn[Out].err)
       ELSE Resolve(MapValue(awaiters[Src].val, fn[Out]))
    /\ opc' = [opc EXCEPT ![Src] = "done"]
    /\ UNCHANGED <<gpc, awaiters, fn, fnRuns, cbArg>>
    /\ ChainFrame

\* fn called whatever the source did
CatchCallsAlways(err) == TRUE
\* Catch: if err == nil { resolve(val); return }, else fn(err) is called
CatchCalls(err) == err # NilErr

\* Catch after the Await returned (val, err): resolve(val), or call fn(err)
CatchObserve ==
    /\ ~crashed
    /\ comb = "Catch"
    /\ opc[Src] = "await"
    /\ awaiters[Src].pc = "returned"
    /\ LET val == awaiters[Src].val
           err == awaiters[Src].err
       IN IF CatchCalls(err)
          THEN /\ fnRuns' = [fnRuns EXCEPT ![Out] = @ + 1]
               /\ cbArg' = [val |-> Zero, err |-> err]
               /\ \E o \in CatchOutcomes : fn' = [fn EXCEPT ![Out] = o]
               /\ opc' = [opc EXCEPT ![Src] = "calling"]
               /\ NoSettle
          ELSE /\ Resolve(val)
               /\ opc' = [opc EXCEPT ![Src] = "done"]
               /\ UNCHANGED <<fn, fnRuns, cbArg>>
    /\ UNCHANGED <<gpc, awaiters>>
    /\ ChainFrame

\* Catch after fn returned (newVal, err): reject(err), or resolve(newVal)
CatchReturn ==
    /\ ~crashed
    /\ comb = "Catch"
    /\ opc[Src] = "calling"
    /\ IF fn[Out].err # NilErr
       THEN Reject(fn[Out].err)
       ELSE Resolve(fn[Out].val)
    /\ opc' = [opc EXCEPT ![Src] = "done"]
    /\ UNCHANGED <<gpc, awaiters, fn, fnRuns, cbArg>>
    /\ ChainFrame

\* Finally after the Await returned: fn() is called
FinallyObserve ==
    /\ ~crashed
    /\ comb = "Finally"
    /\ opc[Src] = "await"
    /\ awaiters[Src].pc = "returned"
    /\ LET val == awaiters[Src].val
           err == awaiters[Src].err
       IN IF TRUE
          THEN /\ fnRuns' = [fnRuns EXCEPT ![Out] = @ + 1]
               /\ cbArg' = NoArg
               /\ \E o \in FinallyOutcomes : fn' = [fn EXCEPT ![Out] = o]
               /\ opc' = [opc EXCEPT ![Src] = "calling"]
               /\ NoSettle
          ELSE /\ NoSettle
               /\ opc' = [opc EXCEPT ![Src] = "done"]
               /\ UNCHANGED <<fn, fnRuns, cbArg>>
    /\ UNCHANGED <<gpc, awaiters>>
    /\ ChainFrame

\* the source's error dropped
FinallyNeverRejects(err) == FALSE
\* Finally: if err != nil { reject(err); return }
FinallyRejects(err) == err # NilErr

\* Finally after fn returned: reject(err), or resolve(val)
FinallyReturn ==
    /\ ~crashed
    /\ comb = "Finally"
    /\ opc[Src] = "calling"
    /\ IF FinallyRejects(awaiters[Src].err)
       THEN Reject(awaiters[Src].err)
       ELSE Resolve(awaiters[Src].val)
    /\ opc' = [opc EXCEPT ![Src] = "done"]
    /\ UNCHANGED <<gpc, awaiters, fn, fnRuns, cbArg>>
    /\ ChainFrame

\* ------------------------------------------------------------ WorkerPool
\* the worker count taken as given
PoolSizeAsGiven(n) == n

\* NewWorkerPool(numWorkers): the worker count after "if numWorkers <= 0"
PoolSize(n) == IF n <= 0 THEN 1 ELSE n

\* cap(p.taskQueue): make(chan task[T], numWorkers*2)
QueueCap == workers * 2

\* Stats(): PoolStats{p.workers, len(p.taskQueue), cap(p.taskQueue)}
Stats ==
    [NumWorkers |-> workers, QueueSize |-> Len(taskQueue), QueueCapacity |-> QueueCap]

\* the workers of the pool, among the ids a pool of the largest size uses
Workers == 1..workers
WorkerIds == 1..PoolSize(MaxWorkers)

\* the state NewWorkerPool(n) returns: n workers started, each at its select
NewWorkerPool(n) ==
    /\ workers = PoolSize(n)
    /\ taskQueue = <<>>
    /\ queueClosed = FALSE
    /\ doneClosed = FALSE
    /\ wg = PoolSize(n)
    /\ wpc = [w \in 1..PoolSize(n) |-> "loop"]
    /\ wtask = [w \in 1..PoolSize(n) |-> 0]
    /\ closepc = "idle"
    /\ atClose = {}
    /\ recovered = {}
    /\ lateSubmit = {}
    /\ secondClose = "idle"

InitPool == InitPromises /\ NoComb /\ \E n \in 0..MaxWorkers : NewWorkerPool(n)

\* A select polls its cases and takes one of those that are ready, chosen at
\* random; with none ready the goroutine waits.  A goroutine at a select is
\* modelled by one position, from which each ready case is a separate step.

\* Submit(fn): allocate the promise and spawn the goroutine that enqueues
Submit(f) ==
    /\ ~crashed
    /\ UNCHANGED <<combVars, orderVars, secondClose>>
    /\ Fresh(f)
    /\ f <= MaxSubmits
    /\ made' = [made EXCEPT ![f] = "Submit"]
    /\ gpc' = [gpc EXCEPT ![f] = "select"]
    /\ lateSubmit' = IF closepc = "returned" THEN lateSubmit \cup {f} ELSE lateSubmit
    /\ UNCHANGED <<fn, resultChan, onceDone, onceLock, calls, awaiters, ctxDone,
                   crashed, writes, fnRuns, firstCall>>
    /\ UNCHANGED <<workers, taskQueue, queueClosed, doneClosed, wg, wpc, wtask,
                   closepc, atClose, recovered>>

\* a send that gives up when the queue is full
SubmitEnqueueOrDrop(f) ==
    /\ ~crashed
    /\ UNCHANGED <<combVars, orderVars, secondClose>>
    /\ made[f] = "Submit"
    /\ gpc[f] = "select"
    /\ ~queueClosed
    /\ IF Len(taskQueue) < QueueCap
       THEN /\ taskQueue' = Append(taskQueue, f)
            /\ gpc' = [gpc EXCEPT ![f] = "enqueued"]
       ELSE /\ taskQueue' = taskQueue
            /\ gpc' = [gpc EXCEPT ![f] = "dropped"]
    /\ UNCHANGED <<made, fn, resultChan, onceDone, onceLock, calls, awaiters,
                   ctxDone, crashed, writes, fnRuns, firstCall>>
    /\ UNCHANGED <<workers, queueClosed, doneClosed, wg, wpc, wtask, closepc,
                   atClose, recovered, lateSubmit>>

\* case p.taskQueue <- t, on an open queue with room
SubmitEnqueue(f) ==
    /\ ~crashed
    /\ UNCHANGED <<combVars, orderVars, secondClose>>
    /\ made[f] = "Submit"
    /\ gpc[f] = "select"
    /\ ~queueClosed
    /\ Len(taskQueue) < QueueCap
    /\ taskQueue' = Append(taskQueue, f)
    /\ gpc' = [gpc EXCEPT ![f] = "enqueued"]
    /\ UNCHANGED <<made, fn, resultChan, onceDone, onceLock, calls, awaiters,
                   ctxDone, crashed, writes, fnRuns, firstCall>>
    /\ UNCHANGED <<workers, queueClosed, doneClosed, wg, wpc, wtask, closepc,
                   atClose, recovered, lateSubmit>>

\* case p.taskQueue <- t, on a closed queue: send on closed channel panics,
\* and the goroutine Submit spawned has no recover
SubmitSendClosed(f) ==
    /\ ~crashed
    /\ UNCHANGED <<combVars, orderVars>>
    /\ made[f] = "Submit"
    /\ gpc[f] = "select"
    /\ queueClosed
    /\ gpc' = [gpc EXCEPT ![f] = "panicked"]
    /\ crashed' = TRUE
    /\ UNCHANGED <<made, fn, resultChan, onceDone, onceLock, calls, awaiters,
                   ctxDone, writes, fnRuns, firstCall>>
    /\ UNCHANGED poolVars

\* the rejection sent by a goroutine that goes back to its select
SubmitRejectedStays(f) ==
    /\ ~crashed
    /\ UNCHANGED <<combVars, orderVars>>
    /\ made[f] = "Submit"
    /\ gpc[f] = "select"
    /\ doneClosed
    /\ Len(resultChan[f]) < ResultChanCap
    /\ resultChan' = [resultChan EXCEPT ![f] = Append(@, Result(Zero, ErrPoolClosed))]
    /\ writes' = [writes EXCEPT ![f] = @ + 1]
    /\ UNCHANGED <<made, gpc, fn, onceDone, onceLock, calls, awaiters, ctxDone,
                   crashed, fnRuns, firstCall>>
    /\ UNCHANGED poolVars

\* case <-p.done: promise.resultChan <- Result[T]{Err: ErrPoolClosed}
SubmitRejected(f) ==
    /\ ~crashed
    /\ UNCHANGED <<combVars, orderVars>>
    /\ made[f] = "Submit"
    /\ gpc[f] = "select"
    /\ doneClosed
    /\ Len(resultChan[f]) < ResultChanCap
    /\ resultChan' = [resultChan EXCEPT ![f] = Append(@, Result(Zero, ErrPoolClosed))]
    /\ writes' = [writes EXCEPT ![f] = @ + 1]
    /\ gpc' = [gpc EXCEPT ![f] = "rejected"]
    /\ UNCHANGED <<made, fn, onceDone, onceLock, calls, awaiters, ctxDone,
                   crashed, fnRuns, firstCall>>
    /\ UNCHANGED poolVars

\* worker: case <-p.done: return (defer p.wg.Done())
WorkerDone(w) ==
    /\ ~crashed
    /\ UNCHANGED <<combVars, orderVars, secondClose>>
    /\ w \in Workers
    /\ wpc[w] = "loop"
    /\ doneClosed
    /\ wpc' = [wpc EXCEPT ![w] = "exited"]
    /\ wg' = wg - 1
    /\ UNCHANGED promiseVars
    /\ UNCHANGED <<workers, taskQueue, queueClosed, doneClosed, wtask, closepc,
                   atClose, recovered, lateSubmit>>

\* worker: case t, ok := <-p.taskQueue with !ok (closed and empty): return
WorkerQueueClosed(w) ==
    /\ ~crashed
    /\ UNCHANGED <<combVars, orderVars, secondClose>>
    /\ w \in Workers
    /\ wpc[w] = "loop"
    /\ queueClosed
    /\ taskQueue = <<>>
    /\ wpc' = [wpc EXCEPT ![w] = "exited"]
    /\ wg' = wg - 1
    /\ UNCHANGED promiseVars
    /\ UNCHANGED <<workers, taskQueue, queueClosed, doneClosed, wtask, closepc,
                   atClose, recovered, lateSubmit>>

\* what t.fn() can do: anything, unless the caller's work function is known
TaskOutcomes(f) == IF fn[f] = NoFn THEN FnOutcomes ELSE {fn[f]}

\* a receive that leaves the task in the queue
WorkerPeek(w) ==
    /\ ~crashed
    /\ UNCHANGED <<combVars, orderVars, secondClose>>
    /\ w \in Workers
    /\ wpc[w] = "loop"
    /\ taskQueue # <<>>
    /\ wtask' = [wtask EXCEPT ![w] = Head(taskQueue)]
    /\ wpc' = [wpc EXCEPT ![w] = "exec"]
    /\ fnRuns' = [fnRuns EXCEPT ![Head(taskQueue)] = @ + 1]
    /\ \E o \in TaskOutcomes(Head(taskQueue)) :
        fn' = [fn EXCEPT ![Head(taskQueue)] = o]
    /\ UNCHANGED <<made, gpc, resultChan, onceDone, onceLock, calls,
                   awaiters, ctxDone, crashed, writes, firstCall>>
    /\ UNCHANGED <<workers, taskQueue, queueClosed, doneClosed, wg, closepc,
                   atClose, recovered, lateSubmit>>

\* worker: case t, ok := <-p.taskQueue with a task: p.executeTask(t) calls
\* t.fn(), which will return some (val, err) or panic
WorkerTake(w) ==
    /\ ~crashed
    /\ UNCHANGED <<combVars, orderVars, secondClose>>
    /\ w \in Workers
    /\ wpc[w] = "loop"
    /\ taskQueue # <<>>
    /\ wtask' = [wtask EXCEPT ![w] = Head(taskQueue)]
    /\ taskQueue' = Tail(taskQueue)
    /\ wpc' = [wpc EXCEPT ![w] = "exec"]
    /\ fnRuns' = [fnRuns EXCEPT ![Head(taskQueue)] = @ + 1]
    /\ \E o \in TaskOutcomes(Head(taskQueue)) :
        fn' = [fn EXCEPT ![Head(taskQueue)] = o]
    /\ UNCHANGED <<made, gpc, resultChan, onceDone, onceLock, calls,
                   awaiters, ctxDone, crashed, writes, firstCall>>
    /\ UNCHANGED <<workers, queueClosed, doneClosed, wg, closepc, atClose,
                   recovered, lateSubmit>>

\* the Result executeTask sends for fn's return (val, err)
TaskResult(o) == Result(o.val, o.err)

\* executeTask: val, err := t.fn(); t.ch <- Result[T]{Value: val, Err: err}
ExecuteReturn(w) ==
    /\ ~crashed
    /\ UNCHANGED <<combVars, orderVars, secondClose>>
    /\ w \in Workers
    /\ wpc[w] = "exec"
    /\ fn[wtask[w]].kind = "return"
    /\ Len(resultChan[wtask[w]]) < ResultChanCap
    /\ resultChan' = [resultChan EXCEPT ![wtask[w]] = Append(@, TaskResult(fn[wtask[w]]))]
    /\ writes' = [writes EXCEPT ![wtask[w]] = @ + 1]
    /\ wpc' = [wpc EXCEPT ![w] = "loop"]
    /\ wtask' = [wtask EXCEPT ![w] = 0]
    /\ UNCHANGED <<made, gpc, fn, onceDone, onceLock, calls, awaiters, ctxDone,
                   crashed, fnRuns, firstCall>>
    /\ UNCHANGED <<workers, taskQueue, queueClosed, doneClosed, wg, closepc,
                   atClose, recovered, lateSubmit>>

\* executeTask without the deferred recover: the panic unwinds the worker
\* goroutine (its deferred p.wg.Done() runs) and ends the process
ExecutePanicUnrecovered(w) ==
    /\ ~crashed
    /\ UNCHANGED <<combVars, orderVars, secondClose>>
    /\ w \in Workers
    /\ wpc[w] = "exec"
    /\ fn[wtask[w]].kind = "panic"
    /\ wpc' = [wpc EXCEPT ![w] = "exited"]
    /\ wg' = wg - 1
    /\ crashed' = TRUE
    /\ UNCHANGED <<made, gpc, fn, resultChan, onceDone, onceLock, calls,
                   awaiters, ctxDone, writes, fnRuns, firstCall>>
    /\ UNCHANGED <<workers, taskQueue, queueClosed, doneClosed, wtask, closepc,
                   atClose, recovered, lateSubmit>>

\* executeTask: t.fn() panics; the deferred recover sends
\* Result[T]{Err: ErrTaskPanicked} and executeTask returns to the loop
ExecutePanic(w) ==
    /\ ~crashed
    /\ UNCHANGED <<combVars, orderVars, secondClose>>
    /\ w \in Workers
    /\ wpc[w] = "exec"
    /\ fn[wtask[w]].kind = "panic"
    /\ Len(resultChan[wtask[w]]) < ResultChanCap
    /\ resultChan' = [resultChan EXCEPT ![wtask[w]] = Append(@, Result(Zero, ErrTaskPanicked))]
    /\ writes' = [writes EXCEPT ![wtask[w]] = @ + 1]
    /\ wpc' = [wpc EXCEPT ![w] = "loop"]
    /\ wtask' = [wtask EXCEPT ![w] = 0]
    /\ UNCHANGED <<made, gpc, fn, onceDone, onceLock, calls, awaiters, ctxDone,
                   crashed, fnRuns, firstCall>>
    /\ UNCHANGED <<workers, taskQueue, queueClosed, doneClosed, wg, closepc,
                   atClose, lateSubmit>>
    /\ recovered' = recovered \cup {w}

\* the tasks in the queue or being executed
Pending ==
    ({taskQueue[i] : i \in 1..Len(taskQueue)} \cup {wtask[w] : w \in Workers}) \ {0}

\* Close: close(p.done)
CloseDone ==
    /\ ~crashed
    /\ UNCHANGED <<combVars, orderVars, secondClose>>
    /\ closepc = "idle"
    /\ doneClosed' = TRUE
    /\ atClose' = Pending
    /\ closepc' = "signalled"
    /\ UNCHANGED promiseVars
    /\ UNCHANGED <<workers, taskQueue, queueClosed, wg, wpc, wtask, recovered,
                   lateSubmit>>

\* Close: close(p.taskQueue)
CloseQueue ==
    /\ ~crashed
    /\ UNCHANGED <<combVars, orderVars, secondClose>>
    /\ closepc = "signalled"
    /\ queueClosed' = TRUE
    /\ closepc' = "waiting"
    /\ UNCHANGED promiseVars
    /\ UNCHANGED <<workers, taskQueue, doneClosed, wg, wpc, wtask, atClose,
                   recovered, lateSubmit>>

\* Close: p.wg.Wait() returns once every worker has called Done; return nil
CloseReturn ==
    /\ ~crashed
    /\ UNCHANGED <<combVars, orderVars, secondClose>>
    /\ closepc = "waiting"
    /\ wg = 0
    /\ closepc' = "returned"
    /\ UNCHANGED promiseVars
    /\ UNCHANGED <<workers, taskQueue, queueClosed, doneClosed, wg, wpc, wtask,
                   atClose, recovered, lateSubmit>>

\* Close called again, its close(p.done) coming after that of the other
\* call: close of a closed channel panics in the caller, before anything
\* else of Close has run; the process ends unless the caller recovers
SecondClose ==
    /\ ~crashed
    /\ UNCHANGED <<combVars, orderVars>>
    /\ closepc # "idle"
    /\ doneClosed
    /\ secondClose = "idle"
    /\ secondClose' = "panicked"
    /\ \E caught \in BOOLEAN : crashed' = ~caught
    /\ UNCHANGED <<made, gpc, fn, resultChan, onceDone, onceLock, calls, awaiters,
                   ctxDone, writes, fnRuns, firstCall>>
    /\ UNCHANGED <<workers, taskQueue, queueClosed, doneClosed, wg, wpc, wtask,
                   closepc, atClose, recovered, lateSubmit>>

\* ------------------------------------------------------ specifications
\* Promises share no state with each other, so each promise specification
\* follows the promises of one constructor.

\* NewPromise and Await
Next ==
    \/ \E f \in Futures : NewPromise(f)
    \/ \E f \in Futures : FnStart(f)
    \/ \E f \in Futures : FnReturn(f)
    \/ \E f \in Futures : FnPanic(f)
    \/ \E a \in Awaiters, f \in Futures : AwaitCall(a, f)
    \/ \E a \in Awaiters : CtxCancel(a)
    \/ \E a \in Awaiters : AwaitRecv(a)
    \/ \E a \in Awaiters : AwaitCtx(a)

Spec == Init /\ [][Next]_vars

\* NewPromise and Await with tokens that never fire
NextLive ==
    \/ \E f \in Futures : NewPromise(f)
    \/ \E f \in Futures : FnStart(f)
    \/ \E f \in Futures : FnReturn(f)
    \/ \E f \in Futures : FnPanic(f)
    \/ \E a \in Awaiters, f \in Futures : AwaitCall(a, f)
    \/ \E a \in Awaiters : AwaitRecv(a)

\* The Go scheduler runs every runnable goroutine, and a work function is
\* assumed to terminate: each goroutine step that stays enabled is taken.
Fairness ==
    /\ \A f \in Futures : WF_vars(FnStart(f))
    /\ \A f \in Futures : WF_vars(FnReturn(f))
    /\ \A a \in Awaiters : WF_vars(AwaitRecv(a))

FairSpec == Init /\ [][NextLive]_vars /\ Fairness

\* Await is called by one caller, one call after the other has returned
AwaitAfter(a, f) ==
    /\ \A b \in Awaiters : b < a => awaiters[b].pc = "returned"
    /\ AwaitCall(a, f)

\* one promise made by NewPromise and a caller that awaits it again and
\* again, each time with a token of its own that may fire at any moment
NextCancel ==
    \/ \E f \in Futures : NoPromiseYet /\ NewPromise(f)
    \/ \E f \in Futures : FnStart(f)
    \/ \E f \in Futures : FnReturn(f)
    \/ \E f \in Futures : FnPanic(f)
    \/ \E a \in Awaiters, f \in Futures : AwaitAfter(a, f)
    \/ \E a \in Awaiters : CtxCancel(a)
    \/ \E a \in Awaiters : AwaitRecv(a)
    \/ \E a \in Awaiters : AwaitCtx(a)

SpecCancel == Init /\ [][NextCancel]_vars /\ Fairness

\* All over promises made by NewPromise, with a token that never fires
NextAll ==
    \/ AllStart
    \/ \E f \in Futures : FnStart(f)
    \/ \E f \in Futures : FnReturn(f)
    \/ \E a \in Awaiters : AwaitRecv(a)
    \/ \E i \in Observers : AllObserve(i)
    \/ \E i \in Observers : AllExit(i)
    \/ AllWait

\* The goroutines of the combinator are scheduled; the work functions of the
\* inputs may take for ever.
FairnessAll ==
    /\ WF_vars(AllStart)
    /\ \A a \in Awaiters : WF_vars(AwaitRecv(a))
    /\ \A i \in Observers : WF_vars(AllObserve(i))
    /\ \A i \in Observers : WF_vars(AllExit(i))
    /\ WF_vars(AllWait)

SpecAll == CombCalled("All") /\ [][NextAll]_vars /\ FairnessAll

\* Race over promises made by NewPromise, with a token that never fires
NextRace ==
    \/ RaceStart
    \/ \E f \in Futures : FnStart(f)
    \/ \E f \in Futures : FnReturn(f)
    \/ \E a \in Awaiters : AwaitRecv(a)
    \/ \E i \in Observers : RaceObserve(i)

FairnessRace ==
    /\ WF_vars(RaceStart)
    /\ \A a \in Awaiters : WF_vars(AwaitRecv(a))
    /\ \A i \in Observers : WF_vars(RaceObserve(i))

SpecRace == CombCalled("Race") /\ [][NextRace]_vars /\ FairnessRace

\* AllSettled over promises made by NewPromise, with a token that never fires
NextAllSettled ==
    \/ AllSettledStart
    \/ \E f \in Futures : FnStart(f)
    \/ \E f \in Futures : FnReturn(f)
    \/ \E a \in Awaiters : AwaitRecv(a)
    \/ \E i \in Observers : AllSettledObserve(i)
    \/ AllSettledWait

FairnessAllSettled ==
    /\ WF_vars(AllSettledStart)
    /\ \A a \in Awaiters : WF_vars(AwaitRecv(a))
    /\ \A i \in Observers : WF_vars(AllSettledObserve(i))
    /\ WF_vars(AllSettledWait)

SpecAllSettled == CombCalled("AllSettled") /\ [][NextAllSettled]_vars /\ FairnessAllSettled

\* Any over promises made by NewPromise, with a token that never fires
NextAny ==
    \/ AnyStart
    \/ \E f \in Futures : FnStart(f)
    \/ \E f \in Futures : FnReturn(f)
    \/ \E a \in Awaiters : AwaitRecv(a)
    \/ \E i \in Observers : AnyObserve(i)
    \/ \E i \in Observers : AnyRejectAll(i)

FairnessAny ==
    /\ WF_vars(AnyStart)
    /\ \A a \in Awaiters : WF_vars(AwaitRecv(a))
    /\ \A i \in Observers : WF_vars(AnyObserve(i))
    /\ \A i \in Observers : WF_vars(AnyRejectAll(i))

SpecAny == CombCalled("Any") /\ [][NextAny]_vars /\ FairnessAny

\* Sequence over promises made by NewPromise, with a token that never fires
NextSequence ==
    \/ SeqStart
    \/ \E f \in Futures : FnStart(f)
    \/ \E f \in Futures : FnReturn(f)
    \/ \E a \in Awaiters : AwaitRecv(a)
    \/ SeqStep

FairnessSequence ==
    /\ WF_vars(SeqStart)
    /\ \A a \in Awaiters : WF_vars(AwaitRecv(a))
    /\ WF_vars(SeqStep)

SpecSequence == CombCalled("Sequence") /\ [][NextSequence]_vars /\ FairnessSequence

\* the work functions given to Pool: each returns a value and a nil error,
\* neighbours returning different values
TaskLists(t) ==
    {[f \in 1..t |-> [kind |-> "return", val |-> (f + k) % (MaxValue + 1), err |-> NilErr]] :
        k \in Values}

\* the state in which Pool(ctx, pool, tasks...) returns on an open pool: it
\* has called pool.Submit(task) for each work function, which spawned one
\* enqueuing goroutine each, and All(ctx, promises...), which spawned the
\* goroutine of All's executor
PoolCalled ==
    /\ \E t \in 0..MaxTasks : \E fns \in TaskLists(t) :
        /\ nIn = t
        /\ made = [f \in Futures |->
                IF f <= t THEN "Submit" ELSE IF f = Out THEN "Executor" ELSE "none"]
        /\ gpc = [f \in Futures |->
                IF f <= t THEN "select" ELSE IF f = Out THEN "spawned" ELSE "none"]
        /\ fn = [f \in Futures |-> IF f <= t THEN fns[f] ELSE NoFn]
    /\ resultChan = [f \in Futures |-> <<>>]
    /\ onceDone = [f \in Futures |-> FALSE]
    /\ onceLock = [f \in Futures |-> 0]
    /\ calls = [c \in Calls |-> NoCall]
    /\ awaiters = [a \in Awaiters |-> NoAwait]
    /\ ctxDone = [a \in Awaiters |-> FALSE]
    /\ crashed = FALSE
    /\ writes = [f \in Futures |-> 0]
    /\ fnRuns = [f \in Futures |-> 0]
    /\ firstCall = [f \in Futures |-> 0]
    /\ firstSettled = 0
    /\ firstFulfilled = 0
    /\ \E n \in 0..MaxWorkers : NewWorkerPool(n)
    /\ comb = "All"
    /\ opc = [i \in Observers |-> "none"]
    /\ results = <<>>
    /\ combOnce = FALSE
    /\ cwg = 0
    /\ waiter = "none"
    /\ errors = <<>>
    /\ rejectedCount = 0
    /\ seqIdx = 0
    /\ outBy = "none"
    /\ cbArg = NoArg

\* Pool on a pool that stays open, with a token that never fires
NextPoolAll ==
    \/ \E f \in Futures : SubmitEnqueue(f)
    \/ \E w \in WorkerIds : WorkerTake(w)
    \/ \E w \in WorkerIds : ExecuteReturn(w)
    \/ AllStart
    \/ \E a \in Awaiters : AwaitRecv(a)
    \/ \E i \in Observers : AllObserve(i)
    \/ AllWait

\* every goroutine is scheduled and every work function returns
FairnessPoolAll ==
    /\ \A f \in Futures : WF_vars(SubmitEnqueue(f))
    /\ \A w \in WorkerIds : WF_vars(WorkerTake(w))
    /\ \A w \in WorkerIds : WF_vars(ExecuteReturn(w))
    /\ WF_vars(AllStart)
    /\ \A a \in Awaiters : WF_vars(AwaitRecv(a))
    /\ \A i \in Observers : WF_vars(AllObserve(i))
    /\ WF_vars(AllWait)

SpecPoolAll == PoolCalled /\ [][NextPoolAll]_vars /\ FairnessPoolAll

\* pools of one worker more than SpecPool has, so that two workers meet at
\* the queue
ManyWorkerIds == 1..PoolSize(MaxWorkers + 1)

\* the work functions passed to Submit: each returns (MaxValue, nil) or
\* panics
WorkerOutcomes ==
    {o \in FnOutcomes : o.kind = "panic" \/ (o.val = MaxValue /\ o.err = NilErr)}
WorkFns ==
    {fns \in [Futures -> WorkerOutcomes \cup {NoFn}] :
        \A f \in Futures : fns[f] = NoFn <=> f > MaxSubmits}

InitWorkers ==
    /\ \E fns \in WorkFns : InitGiven(fns)
    /\ NoComb
    /\ \E n \in 0..MaxWorkers + 1 : NewWorkerPool(n)

NextWorkers ==
    \/ \E f \in Futures : Submit(f)
    \/ \E f \in Futures : SubmitEnqueue(f)
    \/ \E f \in Futures : SubmitSendClosed(f)
    \/ \E f \in Futures : SubmitRejected(f)
    \/ \E w \in ManyWorkerIds : WorkerDone(w)
    \/ \E w \in ManyWorkerIds : WorkerQueueClosed(w)
    \/ \E w \in ManyWorkerIds : WorkerTake(w)
    \/ \E w \in ManyWorkerIds : ExecuteReturn(w)
    \/ \E w \in ManyWorkerIds : ExecutePanic(w)
    \/ CloseDone
    \/ CloseQueue
    \/ CloseReturn

\* a step of a worker or of the caller of Close
WorkerSteps ==
    \/ \E w \in ManyWorkerIds : WorkerDone(w)
    \/ \E w \in ManyWorkerIds : WorkerQueueClosed(w)
    \/ \E w \in ManyWorkerIds : WorkerTake(w)
    \/ \E w \in ManyWorkerIds : ExecuteReturn(w)
    \/ \E w \in ManyWorkerIds : ExecutePanic(w)
    \/ CloseQueue
    \/ CloseReturn

\* The workers and the caller of Close are not all held up for ever while
\* one of them can take a step, and every work function called returns or
\* panics; Submit and Close need never be called, and the goroutine Submit
\* spawned may wait for ever.
FairnessWorkers == WF_vars(WorkerSteps)

SpecWorkers == InitWorkers /\ [][NextWorkers]_vars /\ FairnessWorkers

\* every promise made so far was made by way
OnlyBy(way) == \A g \in Futures : made[g] \in {"none", way}

\* a pool has been made
HasPool == workers > 0

\* either no pool, or a pool and the work functions that will be passed to
\* Submit
InitSettle ==
    \/ Init
    \/ /\ \E fns \in WorkFns : InitGiven(fns)
       /\ NoComb
       /\ \E n \in 0..MaxWorkers : NewWorkerPool(n)

\* a program that makes its promises in one of the three ways, NewPromise,
\* NewPromiseWithExecutor or Submit, and a caller that awaits one of them
NextSettle ==
    \/ \E f \in Futures : ~HasPool /\ OnlyBy("NewPromise") /\ NewPromise(f)
    \/ \E f \in Futures : FnStart(f)
    \/ \E f \in Futures : FnReturn(f)
    \/ \E f \in Futures : FnPanic(f)
    \/ \E f \in Futures : ~HasPool /\ NoPromiseYet /\ NewPromiseWithExecutor(f)
    \/ \E f \in Futures : ExecutorStart(f)
    \/ \E f \in Futures : ExecutorReturn(f)
    \/ \E f \in Futures : ExecutorPanic(f)
    \/ \E c \in Calls, f \in Futures : CallBegin(c, f)
    \/ \E c \in Calls : OnceCheck(c)
    \/ \E c \in Calls : OnceLock(c)
    \/ \E c \in Calls : OnceSlow(c)
    \/ \E f \in Futures : HasPool /\ Submit(f)
    \/ \E f \in Futures : SubmitEnqueue(f)
    \/ \E f \in Futures : SubmitSendClosed(f)
    \/ \E f \in Futures : SubmitRejected(f)
    \/ \E w \in WorkerIds : WorkerDone(w)
    \/ \E w \in WorkerIds : WorkerQueueClosed(w)
    \/ \E w \in WorkerIds : WorkerTake(w)
    \/ \E w \in WorkerIds : ExecuteReturn(w)
    \/ \E w \in WorkerIds : ExecutePanic(w)
    \/ HasPool /\ CloseDone
    \/ CloseQueue
    \/ CloseReturn
    \/ \E f \in Futures : AwaitCall(1, f)
    \/ \E a \in Awaiters : AwaitRecv(a)

SpecSettle == InitSettle /\ [][NextSettle]_vars

\* WorkerPool with Close called a second time, while the first call is
\* still running or after it has returned
NextCloseTwice ==
    \/ \E f \in Futures : Submit(f)
    \/ \E f \in Futures : SubmitEnqueue(f)
    \/ \E f \in Futures : SubmitSendClosed(f)
    \/ \E f \in Futures : SubmitRejected(f)
    \/ \E w \in WorkerIds : WorkerDone(w)
    \/ \E w \in WorkerIds : WorkerQueueClosed(w)
    \/ \E w \in WorkerIds : WorkerTake(w)
    \/ \E w \in WorkerIds : ExecuteReturn(w)
    \/ \E w \in WorkerIds : ExecutePanic(w)
    \/ CloseDone
    \/ CloseQueue
    \/ CloseReturn
    \/ SecondClose

SpecCloseTwice == InitPool /\ [][NextCloseTwice]_vars

\* the combinators over promises made by NewPromise
TokenKinds == {"All", "Race", "AllSettled", "Any", "Sequence"}

\* the work function of an input returns (MaxValue, nil) or (zero, errA)
TokenOutcomes ==
    {o \in InputOutcomes : IF o.err = NilErr THEN o.val = MaxValue ELSE o.err = "errA"}

\* one of the combinators called with a token that has fired or has not
TokenCalled ==
    \E kind \in TokenKinds, fired \in BOOLEAN : CombGiven(kind, fired, TokenOutcomes)

\* a combinator over promises made by NewPromise, with a token that may
\* fire at any moment
NextToken ==
    \/ TokenFire
    \/ \E f \in Futures : FnStart(f)
    \/ \E f \in Futures : FnReturn(f)
    \/ \E a \in Awaiters : AwaitRecv(a)
    \/ \E a \in Awaiters : AwaitCtx(a)
    \/ AllStart
    \/ \E i \in Observers : AllObserve(i)
    \/ \E i \in Observers : AllExit(i)
    \/ AllWait
    \/ RaceStart
    \/ \E i \in Observers : RaceObserve(i)
    \/ AllSettledStart
    \/ \E i \in Observers : AllSettledObserve(i)
    \/ AllSettledWait
    \/ AnyStart
    \/ \E i \in Observers : AnyObserve(i)
    \/ \E i \in Observers : AnyRejectAll(i)
    \/ SeqStart
    \/ SeqStep

\* a step of the executor of the combinator or of a goroutine it started
TokenSteps ==
    \/ \E a \in Awaiters : AwaitRecv(a)
    \/ \E a \in Awaiters : AwaitCtx(a)
    \/ AllStart
    \/ \E i \in Observers : AllObserve(i)
    \/ \E i \in Observers : AllExit(i)
    \/ AllWait
    \/ RaceStart
    \/ \E i \in Observers : RaceObserve(i)
    \/ AllSettledStart
    \/ \E i \in Observers : AllSettledObserve(i)
    \/ AllSettledWait
    \/ AnyStart
    \/ \E i \in Observers : AnyObserve(i)
    \/ \E i \in Observers : AnyRejectAll(i)
    \/ SeqStart
    \/ SeqStep

\* The goroutines of the combinator are not all held up for ever while one
\* of them can take a step; the token may never fire and the work functions
\* of the inputs may take for ever.
FairnessToken == WF_vars(TokenSteps)

SpecToken == TokenCalled /\ [][NextToken]_vars /\ FairnessToken

\* Then, Map, Catch or Finally on a promise made by NewPromise
NextChain ==
    \/ ChainStart
    \/ \E f \in Futures : FnStart(f)
    \/ \E f \in Futures : FnReturn(f)
    \/ \E a \in Awaiters : AwaitRecv(a)
    \/ ThenObserve
    \/ ThenReturn
    \/ MapObserve
    \/ MapReturn
    \/ CatchObserve
    \/ CatchReturn
    \/ FinallyObserve
    \/ FinallyReturn

\* the goroutine of the new promise is scheduled and fn returns; the work
\* function of the source may take for ever
FairnessChain ==
    /\ WF_vars(ChainStart)
    /\ \A a \in Awaiters : WF_vars(AwaitRecv(a))
    /\ WF_vars(ThenObserve) /\ WF_vars(ThenReturn)
    /\ WF_vars(MapObserve) /\ WF_vars(MapReturn)
    /\ WF_vars(CatchObserve) /\ WF_vars(CatchReturn)
    /\ WF_vars(FinallyObserve) /\ WF_vars(FinallyReturn)

SpecChain == ChainCalled /\ [][NextChain]_vars /\ FairnessChain

\* NewPromiseWithExecutor, resolve/reject and Await with tokens that never
\* fire, for one promise
NextExecutor ==
    \/ \E f \in Futures : NoPromiseYet /\ NewPromiseWithExecutor(f)
    \/ \E f \in Futures : ExecutorStart(f)
    \/ \E f \in Futures : ExecutorReturn(f)
    \/ \E f \in Futures : ExecutorPanic(f)
    \/ \E c \in Calls, f \in Futures : CallBegin(c, f)
    \/ \E c \in Calls : OnceCheck(c)
    \/ \E c \in Calls : OnceLock(c)
    \/ \E c \in Calls : OnceSlow(c)
    \/ \E a \in Awaiters, f \in Futures : AwaitCall(a, f)
    \/ \E a \in Awaiters : AwaitRecv(a)

SpecExecutor == Init /\ [][NextExecutor]_vars

\* WorkerPool: Submit, the workers and Close; a settled future keeps its Result
\* in resultChan, where an Await would find it
NextPool ==
    \/ \E f \in Futures : Submit(f)
    \/ \E f \in Futures : SubmitEnqueue(f)
    \/ \E f \in Futures : SubmitSendClosed(f)
    \/ \E f \in Futures : SubmitRejected(f)
    \/ \E w \in WorkerIds : WorkerDone(w)
    \/ \E w \in WorkerIds : WorkerQueueClosed(w)
    \/ \E w \in WorkerIds : WorkerTake(w)
    \/ \E w \in WorkerIds : ExecuteReturn(w)
    \/ \E w \in WorkerIds : ExecutePanic(w)
    \/ CloseDone
    \/ CloseQueue
    \/ CloseReturn

SpecPool == InitPool /\ [][NextPool]_vars

\* ---------------------------------------------------------------- claims
\* what an Await that received from resultChan returned
Received(a) == awaiters[a].pc = "returned" /\ awaiters[a].err # CtxErr
Got(a) == Result(awaiters[a].val, awaiters[a].err)

\* C1: for a promise made by NewPromiseWithExecutor, however many times and
\* in whatever interleaving resolve and reject are invoked, exactly one Result
\* is ever sent: it is the Result of the invocation that entered the once
\* first, it is what the channel holds and what Await returns, and a later
\* invocation never waits on the channel (it finds done set and returns).
C1_SettledExactlyOnce ==
    \A f \in Futures : made[f] = "Executor" =>
        /\ writes[f] <= 1
        /\ (writes[f] = 1) = onceDone[f]
        /\ Len(resultChan[f]) <= ResultChanCap
        /\ resultChan[f] # <<>> => Head(resultChan[f]) = calls[firstCall[f]].res
        /\ \A a \in Awaiters :
            Received(a) /\ awaiters[a].f = f => Got(a) = calls[firstCall[f]].res
        /\ \A c \in Calls :
            calls[c].pc = "locked" /\ calls[c].f = f /\ OnceRuns(f)
                => Len(resultChan[f]) < ResultChanCap

\* two invocations with different arguments have both returned and Await has
\* returned the first one's Result
C1_Witness ==
    \E f \in Futures, a \in Awaiters, c \in Calls, d \in Calls :
        /\ made[f] = "Executor"
        /\ calls[c].pc = "returned" /\ calls[c].f = f
        /\ calls[d].pc = "returned" /\ calls[d].f = f
        /\ calls[c].res # calls[d].res
        /\ firstCall[f] = c /\ c > d
        /\ Received(a) /\ awaiters[a].f = f /\ Got(a) = calls[c].res

\* C2: a settled future serves every Await on it: an Await with a live token
\* that waits on a future that has settled finds the Result in the channel.
\* (Only one Result is ever sent, so an Await that waits on a settled future
\* whose channel is empty never returns.)
C2_SettledServesEveryAwait ==
    \A a \in Awaiters :
        awaiters[a].pc = "waiting" /\ ~ctxDone[a] /\ writes[awaiters[a].f] > 0
            => resultChan[awaiters[a].f] # <<>>

\* C8: a panic of the work function given to NewPromise is recovered: the
\* process goes on and the future is rejected with ErrTaskPanicked.
C8_PanicRecovered ==
    \A f \in Futures :
        made[f] = "NewPromise" /\ fn[f].kind = "panic" /\ gpc[f] \notin {"spawned", "running"}
            => /\ ~crashed
               /\ writes[f] = 1
               /\ \/ resultChan[f] = <<Result(Zero, ErrTaskPanicked)>>
                  \/ \E a \in Awaiters :
                        Received(a) /\ awaiters[a].f = f
                            /\ Got(a) = Result(Zero, ErrTaskPanicked)

\* C9: when the work function returns (v, err) with err non-nil, Await returns
\* (zero value, err), whatever v is.
C9_RejectedCarriesZero ==
    \A a \in Awaiters :
        Received(a) /\ made[awaiters[a].f] \in {"NewPromise", "Submit"}
                /\ fn[awaiters[a].f].kind = "return" /\ fn[awaiters[a].f].err # NilErr
            => Got(a) = Result(Zero, fn[awaiters[a].f].err)

\* fn returns (v, nil)
FnFulfils(f) == made[f] = "NewPromise" /\ fn[f].kind = "return" /\ fn[f].err = NilErr

\* another Await has been called on the future a awaits
SharedAwait(a) ==
    \E b \in Awaiters : b # a /\ awaiters[b].pc # "idle" /\ awaiters[b].f = awaiters[a].f

\* fn is started at most once, and an Await that received returned (v, nil)
C10_Safe ==
    \A f \in Futures : FnFulfils(f) =>
        /\ fnRuns[f] <= 1
        /\ gpc[f] \in {"running", "finished"} => fnRuns[f] = 1
        /\ \A a \in Awaiters :
            Received(a) /\ awaiters[a].f = f => Got(a) = Result(fn[f].val, NilErr)

\* C10: for fn returning (v, nil), NewPromise(fn) starts fn exactly once, and
\* the Await on it, with a token that does not fire, eventually returns
\* (v, nil).  (The Await is the only one on the future; the process is not
\* ended by another promise's panic.)
C10_FulfilledAwaitReturns ==
    /\ [][C10_Safe']_vars
    /\ \A a \in Awaiters :
        (awaiters[a].pc = "waiting" /\ FnFulfils(awaiters[a].f))
            ~> \/ Received(a) /\ fnRuns[awaiters[a].f] = 1
                    /\ Got(a) = Result(fn[awaiters[a].f].val, NilErr)
               \/ ctxDone[a]
               \/ SharedAwait(a)
               \/ crashed

\* an Await has returned a non-zero v from a promise whose fn returned (v, nil)
C10_Witness ==
    \E a \in Awaiters :
        /\ Received(a) /\ FnFulfils(awaiters[a].f) /\ ~SharedAwait(a)
        /\ awaiters[a].val # Zero /\ awaiters[a].val = fn[awaiters[a].f].val
        /\ fnRuns[awaiters[a].f] = 1

\* ------------------------------------------------ claims: cancellation
\* C11: an Await called with a token that has already fired returns
\* (zero, ctx.Err()), whether the future is pending or has settled.
C11_CancelledAwaitReturnsCtxErr ==
    \A a \in Awaiters :
        awaiters[a].pc = "returned" /\ awaiters[a].pre
            => awaiters[a].val = Zero /\ awaiters[a].err = CtxErr

\* the Await of a returned the cancellation error
Cancelled(a) == awaiters[a].pc = "returned" /\ awaiters[a].err = CtxErr

\* a is the only Await on its future that has not returned the cancellation
\* error, and there is one that has
AfterCancelled(a) ==
    /\ awaiters[a].pc # "idle"
    /\ \E b \in Awaiters : b < a /\ awaiters[b].f = awaiters[a].f /\ Cancelled(b)
    /\ \A b \in Awaiters :
        b # a /\ awaiters[b].f = awaiters[a].f => Cancelled(b)

\* the step in which an Await returns the cancellation error changes nothing
\* of the future or its producer
C12_Frame ==
    \A a \in Awaiters :
        awaiters[a].pc = "waiting" /\ Cancelled(a)'
            => UNCHANGED <<made, gpc, fn, resultChan, onceDone, writes, fnRuns, crashed>>

\* C12: an Await that returns the cancellation error leaves the future and
\* its producer as they were, result included; the producer still settles the
\* future, and the next Await on it returns the producer's Result unless its
\* own token fires.
C12_CancelledAwaitLeavesFuture ==
    /\ [][C12_Frame]_vars
    /\ [][\A a \in Awaiters :
            (Received(a) /\ AfterCancelled(a))'
                => Got(a)' = FnResult(fn[awaiters[a].f])]_vars
    /\ \A a \in Awaiters :
        (awaiters[a].pc = "waiting" /\ AfterCancelled(a)
                /\ fn[awaiters[a].f].kind = "return")
            ~> \/ Received(a) /\ Got(a) = FnResult(fn[awaiters[a].f])
               \/ ctxDone[a]

\* an Await returned the cancellation error after the future had settled,
\* and the next Await on the future returned the producer's non-zero value
C12_Witness ==
    \E a \in Awaiters, b \in Awaiters :
        /\ b < a /\ awaiters[b].f = awaiters[a].f
        /\ Cancelled(b) /\ ~awaiters[b].pre
        /\ Received(a) /\ AfterCancelled(a) /\ ~ctxDone[a]
        /\ awaiters[a].val # Zero /\ awaiters[a].err # NilErr

\* ------------------------------------------------- claims: combinators
\* the outcomes of the inputs
InputsFulfil == \A i \in Inputs : fn[i].err = NilErr
SomeRejects == \E i \in Inputs : fn[i].err # NilErr
InputValues == [i \in Inputs |-> fn[i].val]
InputSettled(i) == writes[i] = 1
\* the combinator's promise has been settled by resolve(v) / by reject(e)
OutFulfilled(v) == outBy = "resolve" /\ resultChan[Out] = <<Result(v, NilErr)>>
OutRejected(e) == outBy = "reject" /\ resultChan[Out] = <<Result(Zero, e)>>

C13_Safe ==
    InputsFulfil /\ onceDone[Out]
        => /\ OutFulfilled(InputValues)
           /\ \A i \in Inputs : InputSettled(i)

\* C13: when every input fulfils, All is settled only after all of them have
\* fulfilled, by resolve, with the slice whose entry i is the value of input
\* i, and once all inputs have fulfilled All does get settled.
C13_AllFulfilsInOrder ==
    /\ [][C13_Safe']_vars
    /\ (InputsFulfil /\ \A i \in Inputs : InputSettled(i)) ~> onceDone[Out]

\* two inputs with different values, the second settled first, and All
\* fulfilled with the values in input order
C13_Witness ==
    /\ comb = "All" /\ nIn >= 2 /\ InputsFulfil
    /\ firstSettled = 2
    /\ fn[1].val # fn[2].val
    /\ OutFulfilled(InputValues)

C14_Safe ==
    SomeRejects =>
        /\ ~crashed
        /\ onceDone[Out] =>
            /\ outBy = "reject"
            /\ \E i \in Inputs :
                /\ fn[i].err # NilErr /\ InputSettled(i) /\ Received(i)
                /\ OutRejected(fn[i].err)

\* C14: when an input rejects, All is never settled by resolve; it is settled
\* by reject with the error of an input that has rejected, and that Result
\* stays whatever is rejected later; once an input has rejected All gets
\* rejected even if the other inputs never settle; nothing panics.
C14_AllRejectsOnFirstError ==
    /\ [][C14_Safe']_vars
    /\ [][onceDone[Out] => resultChan'[Out] = resultChan[Out]]_vars
    /\ (\E i \in Inputs : InputSettled(i) /\ fn[i].err # NilErr) ~> outBy = "reject"

\* All has rejected with the error of input 2 while input 1 has not even
\* started
C14_Witness ==
    /\ comb = "All" /\ nIn >= 2
    /\ gpc[1] = "spawned"
    /\ OutRejected(fn[2].err) /\ fn[2].err # NilErr

\* C15: Race is settled once, with the outcome of the input that settled
\* first: the Result Race holds is the one the first input to settle sent.
C15_RaceCarriesFirstSettled ==
    /\ writes[Out] <= 1
    /\ nIn >= 1 /\ onceDone[Out]
        => /\ firstSettled \in Inputs
           /\ resultChan[Out] = <<FnResult(fn[firstSettled])>>

\* the entry AllSettled owes input i
InputStatus(i) ==
    IF fn[i].err = NilErr
    THEN PromiseStatus(StatusFulfilled, fn[i].val, NilErr)
    ELSE PromiseStatus(StatusRejected, Zero, fn[i].err)

C16_Safe ==
    /\ outBy # "reject"
    /\ onceDone[Out]
        => /\ \A i \in Inputs : InputSettled(i)
           /\ OutFulfilled([i \in Inputs |-> InputStatus(i)])

\* C16: AllSettled is never settled by reject; it is settled only after every
\* input has settled, by resolve, with one entry per input, entry i being
\* Fulfilled with the value of input i or Rejected with its error; and once
\* every input has settled it does get settled.
C16_AllSettledReportsEach ==
    /\ [][C16_Safe']_vars
    /\ (\A i \in Inputs : InputSettled(i)) ~> onceDone[Out]

\* input 1 fulfilled with a non-zero value, input 2 rejected first, and
\* AllSettled fulfilled with the two entries in input order
C16_Witness ==
    /\ comb = "AllSettled" /\ nIn >= 2
    /\ firstSettled = 2 /\ fn[2].err # NilErr
    /\ fn[1].err = NilErr /\ fn[1].val # Zero
    /\ OutFulfilled([i \in Inputs |-> InputStatus(i)])

\* C17: when an input fulfils, Any is never settled by reject, and the value
\* it is fulfilled with is the value of the input that fulfilled first.
C17_AnyCarriesFirstFulfilled ==
    (\E i \in Inputs : fn[i].err = NilErr) =>
        /\ outBy # "reject"
        /\ onceDone[Out] =>
            /\ firstFulfilled \in Inputs
            /\ OutFulfilled(fn[firstFulfilled].val)

AllReject == nIn >= 1 /\ \A i \in Inputs : fn[i].err # NilErr

C18_Safe ==
    AllReject =>
        /\ writes[Out] <= 1
        /\ outBy # "resolve"
        /\ onceDone[Out] =>
            /\ \A i \in Inputs : InputSettled(i)
            /\ Len(errors) = nIn
            /\ \A i \in Inputs : \E k \in 1..nIn : errors[k].src = i
            /\ \A k \in 1..nIn : errors[k].err = fn[errors[k].src].err
            /\ resultChan[Out] = <<Result(Zero, NewAggregateError(ErrorsOf(errors)))>>
            /\ Count(Head(resultChan[Out]).Err) = nIn

Needed == {i \in Inputs : \A j \in Inputs : j < i => fn[j].err = NilErr}
Last == CHOOSE i \in Needed : \A j \in Needed : j <= i

C19_Safe ==
    /\ \A i \in Inputs :
        awaiters[i].pc # "idle" =>
            /\ i \in Needed
            /\ \A j \in Inputs : j < i => Received(j) /\ InputSettled(j)
    /\ nIn >= 1 /\ onceDone[Out] =>
        /\ Received(Last)
        /\ IF InputsFulfil
           THEN OutFulfilled(InputValues)
           ELSE OutRejected(fn[Last].err)

\* C19: Sequence awaits input i+1 only after input i has fulfilled and its
\* Await has returned; an input after the first rejecting one is never
\* awaited; Sequence is settled with the first rejection's error, or with the
\* values in input order when all inputs fulfil, and it does get settled once
\* every input up to the first rejecting one has settled.
C19_SequenceInOrder ==
    /\ [][C19_Safe']_vars
    /\ (\A i \in Needed : InputSettled(i)) ~> onceDone[Out]

\* the first input rejected and Sequence with it, while the second input,
\* settled long since, was never awaited
C19_Witness ==
    /\ comb = "Sequence" /\ nIn >= 2
    /\ fn[1].err # NilErr /\ OutRejected(fn[1].err)
    /\ firstSettled = 2 /\ awaiters[2].pc = "idle"

C20_Safe ==
    /\ ~crashed
    /\ \A f \in Inputs : fnRuns[f] <= 1
    /\ onceDone[Out] =>
        /\ \A f \in Inputs : fnRuns[f] = 1
        /\ OutFulfilled([f \in Inputs |-> fn[f].val])

C25_EmptyInput ==
    (nIn = 0 /\ comb \in {"All", "Race", "Any"}) =>
        /\ \A a \in Awaiters : awaiters[a].pc = "idle"
        /\ writes[Out] <= 1
        /\ gpc[Out] = "finished" =>
            /\ comb = "All" => OutFulfilled(<<>>)
            /\ comb = "Race" => OutFulfilled(Zero)
            /\ comb = "Any" => OutRejected(ErrAllPromisesRejected)

\* Any with no input and a token that has fired, rejected with
\* ErrAllPromisesRejected
C25_Witness ==
    /\ nIn = 0 /\ comb = "Any" /\ TokenFired
    /\ gpc[Out] = "finished"
    /\ OutRejected(ErrAllPromisesRejected)

\* input i has not settled
InputPending(i) == writes[i] = 0
\* no input has rejected so far / has fulfilled so far
NoneRejected == \A i \in Inputs : InputSettled(i) => fn[i].err = NilErr
NoneFulfilled == \A i \in Inputs : InputSettled(i) => fn[i].err # NilErr
SomePending == \E i \in Inputs : InputPending(i)
\* the entry AllSettled records for an Await the token ended
CancelledStatus == PromiseStatus(StatusRejected, Zero, CtxErr)

C27_Safe ==
    (onceDone[Out] /\ nIn >= 1) =>
        /\ (comb \in {"All", "Sequence"} /\ SomePending /\ NoneRejected) =>
            TokenFired /\ OutRejected(CtxErr)
        /\ (comb = "Race" /\ \A i \in Inputs : InputPending(i)) =>
            TokenFired /\ OutRejected(CtxErr)
        /\ comb = "AllSettled" =>
            /\ outBy = "resolve"
            /\ \A i \in Inputs : InputPending(i) =>
                /\ TokenFired
                /\ Head(resultChan[Out]).Value[i] = CancelledStatus
        /\ (comb = "Any" /\ SomePending /\ NoneFulfilled) =>
            /\ TokenFired
            /\ outBy = "reject"
            /\ resultChan[Out] = <<Result(Zero, NewAggregateError(ErrorsOf(errors)))>>
            /\ Count(Head(resultChan[Out]).Err) = nIn
            /\ \A i \in Inputs : InputPending(i) =>
                \E k \in 1..nIn : errors[k] = [src |-> i, err |-> CtxErr]

\* C27: once the token has fired, a combinator over n >= 1 inputs does get
\* settled, whether or not any input ever settles; settled while inputs are
\* pending, All and Sequence (no input having rejected) and Race (no input
\* having settled) are rejected with the cancellation error, AllSettled is
\* fulfilled with a Rejected entry carrying the cancellation error for each
\* pending input, and Any (no input having fulfilled) is rejected with an
\* AggregateError of Count() n holding the cancellation error of each
\* pending input.
C27_TokenReachesAwaits ==
    /\ [][C27_Safe']_vars
    /\ (TokenFired /\ nIn >= 1) ~> onceDone[Out]

\* AllSettled over two inputs: the first fulfilled, the second never
\* settled, and after the token fired AllSettled fulfilled with a Fulfilled
\* entry for the first and a Rejected entry with the cancellation error for
\* the second
C27_Witness ==
    /\ comb = "AllSettled" /\ nIn = 2 /\ TokenFired
    /\ InputSettled(1) /\ InputPending(2)
    /\ outBy = "resolve"
    /\ Head(resultChan[Out]).Value[1] = PromiseStatus(StatusFulfilled, fn[1].val, NilErr)
    /\ Head(resultChan[Out]).Value[2] = CancelledStatus

\* ------------------------------------ claims: Then, Map, Catch, Finally
SrcFulfils == fn[Src].err = NilErr
\* fn has been called once / has returned
Called == fnRuns[Out] = 1
Returned == Called /\ opc[Src] = "done"

C21_Safe ==
    comb = "Then" =>
        /\ fnRuns[Out] <= 1
        /\ ~SrcFulfils => fnRuns[Out] = 0
        /\ Called => InputSettled(Src) /\ cbArg = [val |-> fn[Src].val, err |-> NilErr]
        /\ onceDone[Out] =>
            IF ~SrcFulfils THEN OutRejected(fn[Src].err)
            ELSE /\ Returned
                 /\ IF fn[Out].err = NilErr
                    THEN OutFulfilled(fn[Src].val)
                    ELSE OutRejected(fn[Out].err)

\* C21: p.Then(fn): when the source fulfils with v, fn is called once, with
\* v, and the new promise fulfils with v if fn returns nil and rejects with
\* fn's error otherwise; when the source rejects with e the new promise
\* rejects with e and fn is never called; the new promise does get settled
\* once the source has.
C21_Then ==
    /\ [][C21_Safe']_vars
    /\ (comb = "Then" /\ InputSettled(Src)) ~> onceDone[Out]

\* the source fulfilled with a non-zero value, fn was called with it and
\* returned nil, and the new promise fulfilled with that value
C21_Witness ==
    /\ comb = "Then" /\ SrcFulfils /\ fn[Src].val # Zero
    /\ Returned /\ fn[Out].err = NilErr /\ cbArg.val = fn[Src].val
    /\ OutFulfilled(fn[Src].val)

C22_Safe ==
    comb = "Map" =>
        /\ fnRuns[Out] <= 1
        /\ ~SrcFulfils => fnRuns[Out] = 0
        /\ Called => InputSettled(Src) /\ cbArg = [val |-> fn[Src].val, err |-> NilErr]
        /\ onceDone[Out] =>
            IF ~SrcFulfils THEN OutRejected(fn[Src].err)
            ELSE /\ Returned
                 /\ IF fn[Out].err = NilErr
                    THEN OutFulfilled(fn[Out].val)
                    ELSE OutRejected(fn[Out].err)

\* C22: p.Map(fn): when the source fulfils with v, fn is called once with v
\* and the new promise fulfils with w if fn returns (w, nil) and rejects with
\* fn's error otherwise; when the source rejects with e the new promise
\* rejects with e and fn is never called; the new promise does get settled
\* once the source has.
C22_Map ==
    /\ [][C22_Safe']_vars
    /\ (comb = "Map" /\ InputSettled(Src)) ~> onceDone[Out]

\* the source fulfilled with one value, fn returned another, and the new
\* promise fulfilled with fn's
C22_Witness ==
    /\ comb = "Map" /\ SrcFulfils
    /\ Returned /\ fn[Out].err = NilErr /\ fn[Out].val # fn[Src].val
    /\ OutFulfilled(fn[Out].val)

C23_Safe ==
    comb = "Catch" =>
        /\ fnRuns[Out] <= 1
        /\ SrcFulfils => fnRuns[Out] = 0
        /\ Called => InputSettled(Src) /\ cbArg = [val |-> Zero, err |-> fn[Src].err]
        /\ onceDone[Out] =>
            IF SrcFulfils THEN OutFulfilled(fn[Src].val)
            ELSE /\ Returned
                 /\ IF fn[Out].err = NilErr
                    THEN OutFulfilled(fn[Out].val)
                    ELSE OutRejected(fn[Out].err)

\* C23: p.Catch(fn): when the source fulfils with v the new promise fulfils
\* with v and fn is never called; when the source rejects with e, fn is
\* called once, with e, and the new promise fulfils with fn's value if fn
\* returns a nil error and rejects with fn's error otherwise; the new promise
\* does get settled once the source has.
C23_Catch ==
    /\ [][C23_Safe']_vars
    /\ (comb = "Catch" /\ InputSettled(Src)) ~> onceDone[Out]

\* the source rejected, fn was called with its error and returned a non-zero
\* value, and the new promise fulfilled with that value
C23_Witness ==
    /\ comb = "Catch" /\ ~SrcFulfils
    /\ Returned /\ cbArg.err = fn[Src].err
    /\ fn[Out].err = NilErr /\ fn[Out].val # Zero
    /\ OutFulfilled(fn[Out].val)

C24_Safe ==
    comb = "Finally" =>
        /\ fnRuns[Out] <= 1
        /\ Called => InputSettled(Src) /\ Received(Src)
        /\ onceDone[Out] =>
            /\ Returned
            /\ IF SrcFulfils
               THEN OutFulfilled(fn[Src].val)
               ELSE OutRejected(fn[Src].err)

\* C24: p.Finally(fn): fn is called once, after the source has settled and
\* before the new promise is settled, whether the source fulfilled or
\* rejected; the new promise is then settled with the source's value, or with
\* its error; and all this does happen once the source has settled.
C24_Finally ==
    /\ [][C24_Safe']_vars
    /\ [][comb = "Finally" /\ fnRuns'[Out] # fnRuns[Out] => ~onceDone[Out]]_vars
    /\ (comb = "Finally" /\ InputSettled(Src)) ~> (onceDone[Out] /\ Called)

\* the source rejected, fn has run, and the new promise rejected with the
\* source's error
C24_Witness ==
    /\ comb = "Finally" /\ ~SrcFulfils
    /\ Returned /\ OutRejected(fn[Src].err)

\* ------------------------------------------------------ claims: the pool
\* the future of task f holds Result r (nothing awaits in the pool
\* specification: a Result sent stays in the channel)
Settled(f, r) == resultChan[f] = <<r>>

\* C3: a Submit made after Close has returned does not panic, does not run the
\* work function, and its future is rejected with ErrPoolClosed.
C3_SubmitAfterCloseRejected ==
    \A f \in lateSubmit :
        /\ gpc[f] \in {"select", "rejected"}
        /\ gpc[f] = "rejected" => Settled(f, Result(Zero, ErrPoolClosed))
        /\ fnRuns[f] = 0

\* C4: when Close returns, every task that was queued or being executed when
\* Close was called has been executed and its future settled.
C4_CloseDrains ==
    closepc = "returned" =>
        \A f \in atClose : fnRuns[f] = 1 /\ writes[f] = 1

\* C5: once the done signal is closed, a Submit goroutine that leaves its
\* select has been rejected with ErrPoolClosed: it has not enqueued its task.
C5_NoAdmissionAfterShutdown ==
    [][doneClosed =>
        \A f \in Futures :
            gpc[f] = "select" /\ gpc'[f] # "select"
                => gpc'[f] = "rejected" /\ taskQueue' = taskQueue]_vars

\* C6: in every interleaving of Submit with Close nothing panics, and once
\* Close has returned and every Submit goroutine has left its select, every
\* submitted future has settled (with the task's outcome or ErrPoolClosed).
C6_SubmitAlwaysSettles ==
    /\ \A f \in Futures : gpc[f] # "panicked"
    /\ (closepc = "returned" /\ \A f \in Futures : gpc[f] # "select")
        => \A f \in Futures : made[f] = "Submit" => writes[f] = 1

\* the workers still in their loop (waiting at the select or executing)
Live == {w \in Workers : wpc[w] # "exited"}

\* C7: a step that ends the execution of a task whose work function panicked
\* leaves the process running, sends Result{Err: ErrTaskPanicked} to that
\* task's future, and returns the worker to its select: no worker is lost.
\* A worker leaves its loop only after the done signal has been closed.
C7_PanicRecoveredInWorker ==
    [][\A w \in Workers :
        /\ wpc[w] = "exec" /\ fn[wtask[w]].kind = "panic" /\ wpc'[w] # "exec"
            => /\ ~crashed'
               /\ wpc'[w] = "loop"
               /\ resultChan'[wtask[w]] = <<Result(Zero, ErrTaskPanicked)>>
               /\ Cardinality(Live') = Cardinality(Live)
        /\ wpc[w] # "exited" /\ wpc'[w] = "exited" => doneClosed]_vars

\* on an open pool, a worker that recovered a panic is executing a later task
C7_Witness ==
    \E w \in Workers, f \in Futures :
        /\ ~doneClosed
        /\ w \in recovered
        /\ wpc[w] = "exec"
        /\ Settled(f, Result(Zero, ErrTaskPanicked))
        /\ wtask[w] # f

\* ------------------------------------------- claims: workers and the queue
\* the worker goroutines NewWorkerPool started, and those inside t.fn()
Started == DOMAIN wpc
Executing == {w \in Started : wpc[w] = "exec"}
InQueue == {taskQueue[i] : i \in 1..Len(taskQueue)}

\* C26: NewWorkerPool(n) starts W = max(1, n) workers; in every reachable
\* state at most W of them are executing a work function, the queue holds
\* between 0 and 2*W tasks, and Stats reports NumWorkers = W, that queue
\* depth and QueueCapacity = 2*W.
C26_PoolBounds ==
    /\ \A n \in 0..MaxWorkers + 1 : PoolSize(n) = Max(1, n)
    /\ \E n \in 0..MaxWorkers + 1 : Started = 1..Max(1, n)
    /\ Cardinality(Executing) <= Cardinality(Started)
    /\ Len(taskQueue) >= 0 /\ Len(taskQueue) <= 2 * Cardinality(Started)
    /\ Stats.NumWorkers = Cardinality(Started)
    /\ Stats.QueueSize = Len(taskQueue)
    /\ Stats.QueueCapacity = 2 * Cardinality(Started)

\* a pool of two workers, both executing a work function, Stats reporting
\* two workers and a capacity of four
C26_Witness ==
    /\ Cardinality(Started) = 2 /\ Executing = Started
    /\ Stats.NumWorkers = 2 /\ Stats.QueueCapacity = 4

\* C29: no work function passed to Submit is called more than once, no two
\* workers hold the same task, and a task a worker holds is no longer in
\* the queue, which holds no task twice.
C29_TakenOnce ==
    /\ \A f \in Futures : fnRuns[f] <= 1
    /\ \A v, w \in Started : (v # w /\ wtask[v] # 0) => wtask[v] # wtask[w]
    /\ \A w \in Started : wtask[w] # 0 => wtask[w] \notin InQueue
    /\ \A i, j \in 1..Len(taskQueue) : i # j => taskQueue[i] # taskQueue[j]

\* two workers executing two different tasks while Close has been called
C29_Witness ==
    /\ closepc # "idle"
    /\ \E v, w \in Started :
        /\ v # w /\ wpc[v] = "exec" /\ wpc[w] = "exec"
        /\ wtask[v] # wtask[w]
        /\ fnRuns[wtask[v]] = 1 /\ fnRuns[wtask[w]] = 1

\* ---------------------------------------------------- claims: Close returns
\* every worker has left its loop and none is inside a work function
WorkersExited == \A w \in Started : wpc[w] = "exited"

\* C28: once Close has been called it returns, whatever is queued and
\* whatever Submit goroutines are at their select, given that every work
\* function called returns or panics; when it returns every worker has
\* exited, and from then on no work function is running or is called.
C28_CloseReturns ==
    /\ [][closepc' = "returned" => WorkersExited' /\ Executing' = {}]_vars
    /\ [][closepc = "returned" => fnRuns' = fnRuns]_vars
    /\ (closepc # "idle") ~> (closepc = "returned")

\* ------------------------------------------------ claims: settlement writes
\* the Result written into the channel of f: still there, or received by
\* the caller that awaited f
Written(f) ==
    IF resultChan[f] # <<>> THEN Head(resultChan[f])
    ELSE Result(awaiters[1].val, awaiters[1].err)

\* the goroutine of NewPromise is about to send / a call of resolve or
\* reject holds the mutex of the once and is about to send / the goroutine
\* of Submit is at its select / a worker is inside executeTask
FnSends(f) == made[f] = "NewPromise" /\ gpc[f] = "running"
CallSends(c) == calls[c].pc = "locked" /\ ~onceDone[calls[c].f]
SubmitSends(f) == made[f] = "Submit" /\ gpc[f] = "select"
WorkerSends(w) == wpc[w] = "exec"

\* C30: no future receives more than one settlement write, whether made by
\* NewPromise, NewPromiseWithExecutor or Submit, and whoever is about to
\* write finds the single slot of the channel never written, so that no
\* write blocks; a Submit future written to holds ErrPoolClosed and its
\* work function never ran, or its work function ran once and it holds the
\* task's result or, the function having panicked, ErrTaskPanicked.
C30_OneWrite ==
    /\ \A f \in Futures : writes[f] <= 1 /\ Len(resultChan[f]) <= ResultChanCap
    /\ \A f \in Futures : FnSends(f) => writes[f] = 0
    /\ \A c \in Calls : CallSends(c) => writes[calls[c].f] = 0
    /\ \A f \in Futures : SubmitSends(f) => writes[f] = 0
    /\ \A w \in Started : WorkerSends(w) => writes[wtask[w]] = 0
    /\ \A f \in Futures : (made[f] = "Submit" /\ writes[f] = 1) =>
        IF gpc[f] = "rejected"
        THEN fnRuns[f] = 0 /\ Written(f) = Result(Zero, ErrPoolClosed)
        ELSE /\ gpc[f] = "enqueued" /\ fnRuns[f] = 1
             /\ Written(f) = (IF fn[f].kind = "panic"
                              THEN Result(Zero, ErrTaskPanicked)
                              ELSE TaskResult(fn[f]))

\* a Submit future whose work function panicked: ErrTaskPanicked was
\* written once and received by Await, the worker is back in its loop and
\* the channel is empty again
C30_Witness ==
    \E f \in Futures :
        /\ made[f] = "Submit" /\ writes[f] = 1 /\ resultChan[f] = <<>>
        /\ awaiters[1].pc = "returned" /\ awaiters[1].f = f
        /\ awaiters[1].err = ErrTaskPanicked
        /\ \A w \in Started : wtask[w] # f

\* ------------------------------------------------- claims: a second Close
\* C31: a second call of Close, made while the first is running or after it
\* has returned, does not panic.
C31_SecondCloseSafe == secondClose # "panicked"

====
